---- MODULE Spec2Model ----
(***************************************************************************)
(* The OAuth2 / OpenID Connect session store (OpenIDConnectStore) of the   *)
(* identity provider: its per-kind create / get / delete / invalidate /    *)
(* revoke operations over the storage provider's session tables.           *)
(*                                                                         *)
(* The store methods are those of package oidc. The storage provider       *)
(* (internal/storage) and the row type (internal/model) follow the storage *)
(* contract of the specification (sections 3, 4.4 and 5): one table per    *)
(* kind keyed by signature, a unique-constraint conflict on insert, flag   *)
(* updates by signature and by request ID, and a load that hides revoked   *)
(* rows but hands back inactive ones with their active flag.               *)
(* A storage failure is drawn for the reads; a failed write returns the    *)
(* provider's error and changes nothing.                                   *)
(***************************************************************************)
EXTENDS Naturals, FiniteSets, Sequences, TLC

(***************************************************************************)
(* Bounds and input sets                                                   *)
(***************************************************************************)

\* Number of store operations in one run.
MaxOps == 3

Signatures == {"sigA", "sigB"}

RequestIDs == {"req1", "req2"}

Forms == {"scope=openid", "scope=profile"}

\* Clients configured at start-up (the registry built by NewOpenIDConnectStore).
clients == {"app1", "app2"}

\* The five session kinds (storage.OAuth2SessionType...).
OAuth2SessionTypeAuthorizeCode == "AuthorizeCode"

OAuth2SessionTypeAccessToken == "AccessToken"

OAuth2SessionTypeRefreshToken == "RefreshToken"

OAuth2SessionTypePKCEChallenge == "PKCEChallenge"

OAuth2SessionTypeOpenIDConnect == "OpenIDConnect"

Kinds ==
    { OAuth2SessionTypeAuthorizeCode, OAuth2SessionTypeAccessToken,
      OAuth2SessionTypeRefreshToken, OAuth2SessionTypePKCEChallenge,
      OAuth2SessionTypeOpenIDConnect }

\* Errors.
NoError == "nil"

ErrNotFound == "fosite.ErrNotFound"

ErrInvalidatedAuthorizeCode == "fosite.ErrInvalidatedAuthorizeCode"

ErrNoRows == "sql.ErrNoRows"

ErrConflict == "storage: unique constraint violation"

ErrStorage == "storage: failure"

ErrClient == "model: client not found"

\* A fosite.Requester as far as the store persists it.
Requests ==
    [id : RequestIDs, client : {"app1"}, subject : {"john"}, form : Forms]

\* The nil Requester.
NilRequest == [id |-> "", client |-> "", subject |-> "", form |-> ""]

VARIABLES
    sessions,   \* provider table: <<kind, signature>> -> row (rows present only)
    last,       \* the last store call, what it returned, whether it repeats the call before it
    nops,       \* number of store calls made
    saved,      \* history: <<kind, signature>> -> request of the first successful save
    consumed,   \* history: codes invalidated while their session existed
    deleted,    \* history: <<kind, signature>> whose delete call succeeded on a saved session
    family,     \* history: <<revoke call, <<kind, signature>>>> returned for the request ID of a saved token
    blacklist,  \* provider table of blacklisted JTIs: signature -> row
    now,        \* time.Now()
    jlast,      \* the last JTI call, the time it was made at and what it returned
    marked,     \* history: jti -> expiry given to the latest successful mark
    opaque,     \* provider table of opaque identifiers: <<service, sector, username>> -> UUID
    pc,         \* per request task: where its GenerateOpaqueUserID call stands and what it returned
    persisted,  \* history: <<triple, UUID>> ever written to the table
    issued,     \* history: <<triple, UUID>> ever returned with a nil error
    consents,   \* provider table of consent sessions: challenge ID -> row
    userSession,\* the user session of the request: pending challenge ID, authentication level
    clast,      \* the last registry or consent call and its response
    racers,     \* per request task: the store call it races and what the call returned
    started,    \* the session table when the racing calls were made
    rounds,     \* number of races run
    authn,      \* per request task: the client assertion it authenticates with and how far it got
    corsPolicy, \* the CORSMiddleware being configured, then serving
    http        \* whether the policy serves yet, its last request and the response headers it set

sessionVars == <<sessions, last, nops, saved, consumed, deleted, family>>

jtiVars == <<blacklist, now, jlast, marked>>

subjectVars == <<opaque, pc, persisted, issued>>

consentVars == <<consents, userSession, clast>>

raceVars == <<racers, started, rounds, authn>>

corsVars == <<corsPolicy, http>>

vars == <<sessionVars, jtiVars, subjectVars, consentVars, raceVars, corsVars>>

(***************************************************************************)
(* Storage provider and row type                                           *)
(***************************************************************************)

\* model.NewOAuth2SessionFromRequest: the row that persists a request.
NewOAuth2SessionFromRequest(signature, r) ==
    [ signature  |-> signature,
      request_id |-> r.id,
      client_id  |-> r.client,
      subject    |-> r.subject,
      form       |-> r.form,
      active     |-> TRUE,
      revoked    |-> FALSE ]

\* GetFullClient: the registry lookup.
GetFullClient(id) ==
    IF id \in clients
    THEN [client |-> id, err |-> NoError]
    ELSE [client |-> "", err |-> ErrNotFound]

\* Authentication and policy levels, in their order.
NotAuthenticated == 0

OneFactor == 1

TwoFactor == 2

\* The policy each registered client was configured with.
ClientPolicy == [ c \in clients |-> IF c = "app1" THEN OneFactor ELSE TwoFactor ]

\* Client IDs asked about: the registered ones, one that is not, and the empty one.
ClientIDs == clients \cup {"app3", ""}

GetClientPolicy_DefaultOneFactor(id) ==
    LET res == GetFullClient(id)
    IN  IF res.err # NoError THEN OneFactor ELSE ClientPolicy[res.client]

\* GetClientPolicy: the client's policy, two-factor when there is no client.
GetClientPolicy(id) ==
    LET res == GetFullClient(id)
    IN  IF res.err # NoError THEN TwoFactor ELSE ClientPolicy[res.client]

GetClient(id) == GetFullClient(id)

IsValidClientID(id) == GetFullClient(id).err = NoError

\* model.OAuth2Session.ToRequest: rebuilds the request from a row; the client
\* is resolved through the store.
ToRequest(row) ==
    LET c == GetFullClient(row.client_id)
    IN  IF c.err # NoError
        THEN [r |-> NilRequest, err |-> ErrClient]
        ELSE [ r   |-> [ id      |-> row.request_id,
                         client  |-> c.client,
                         subject |-> row.subject,
                         form    |-> row.form ],
               err |-> NoError ]

\* Rows of one kind sharing a request ID.
RowsByRequestID(db, kind, requestID) ==
    { k \in DOMAIN db : k[1] = kind /\ db[k].request_id = requestID }

\* INSERT: a unique-constraint violation on (kind, signature) is a conflict.
SaveOAuth2Session(db, kind, session) ==
    IF <<kind, session.signature>> \in DOMAIN db
    THEN [db |-> db, err |-> ErrConflict]
    ELSE [ db  |-> [ k \in DOMAIN db \cup {<<kind, session.signature>>} |->
                       IF k = <<kind, session.signature>> THEN session ELSE db[k] ],
           err |-> NoError ]

\* The nil row.
NilSession ==
    [ signature |-> "", request_id |-> "", client_id |-> "", subject |-> "",
      form |-> "", active |-> FALSE, revoked |-> FALSE ]

\* SELECT of the row that is not revoked; none is sql.ErrNoRows.
LoadOAuth2Session(db, kind, signature, fault) ==
    IF fault
    THEN [session |-> NilSession, err |-> ErrStorage]
    ELSE IF <<kind, signature>> \in DOMAIN db /\ ~db[<<kind, signature>>].revoked
    THEN [session |-> db[<<kind, signature>>], err |-> NoError]
    ELSE [session |-> NilSession, err |-> ErrNoRows]

\* UPDATE ... SET revoked = TRUE WHERE signature = ?
RevokeOAuth2Session(db, kind, signature) ==
    [ db  |-> [ k \in DOMAIN db |->
                  IF k = <<kind, signature>>
                  THEN [db[k] EXCEPT !.revoked = TRUE] ELSE db[k] ],
      err |-> NoError ]

\* UPDATE ... SET revoked = TRUE WHERE request_id = ?; no row matched is sql.ErrNoRows.
RevokeOAuth2SessionByRequestID(db, kind, requestID) ==
    IF RowsByRequestID(db, kind, requestID) = {}
    THEN [db |-> db, err |-> ErrNoRows]
    ELSE [ db  |-> [ k \in DOMAIN db |->
                       IF k \in RowsByRequestID(db, kind, requestID)
                       THEN [db[k] EXCEPT !.revoked = TRUE] ELSE db[k] ],
           err |-> NoError ]

\* UPDATE ... SET active = FALSE WHERE signature = ?
DeactivateOAuth2Session(db, kind, signature) ==
    [ db  |-> [ k \in DOMAIN db |->
                  IF k = <<kind, signature>>
                  THEN [db[k] EXCEPT !.active = FALSE] ELSE db[k] ],
      err |-> NoError ]

\* UPDATE ... SET active = FALSE WHERE request_id = ?; no row matched is sql.ErrNoRows.
DeactivateOAuth2SessionByRequestID(db, kind, requestID) ==
    IF RowsByRequestID(db, kind, requestID) = {}
    THEN [db |-> db, err |-> ErrNoRows]
    ELSE [ db  |-> [ k \in DOMAIN db |->
                       IF k \in RowsByRequestID(db, kind, requestID)
                       THEN [db[k] EXCEPT !.active = FALSE] ELSE db[k] ],
           err |-> NoError ]

(***************************************************************************)
(* OpenIDConnectStore: the internal helpers                                *)
(***************************************************************************)

\* An error of the provider that wraps sql.ErrNoRows.
ErrWrappedNoRows == "error selecting row: sql.ErrNoRows"

\* The error an error wraps, nil when it wraps none.
Unwrap(err) == IF err = ErrWrappedNoRows THEN ErrNoRows ELSE NoError

\* errors.Is(err, target): target is err or is in the chain err wraps.
ErrorsIs(err, target) ==
    IF err = NoError \/ target = NoError
    THEN err = target
    ELSE \/ err = target
         \/ Unwrap(err) # NoError /\ Unwrap(err) = target

\* The switch of loadSessionBySignature on the error of the provider's load.
loadSessionBySignatureError(err) ==
    IF ErrorsIs(err, ErrNoRows) THEN ErrNotFound ELSE err

\* Variant: the invalidated-code branch forgets to hand back the requester.
loadSessionBySignature_DropsRequester(db, sessionType, signature, fault) ==
    LET loaded == LoadOAuth2Session(db, sessionType, signature, fault)
        req    == ToRequest(loaded.session)
    IN  IF loaded.err # NoError
        THEN IF loaded.err = ErrNoRows
             THEN [r |-> NilRequest, err |-> ErrNotFound]
             ELSE [r |-> NilRequest, err |-> loaded.err]
        ELSE IF req.err # NoError
        THEN [r |-> NilRequest, err |-> req.err]
        ELSE IF ~loaded.session.active /\ sessionType = OAuth2SessionTypeAuthorizeCode
        THEN [r |-> NilRequest, err |-> ErrInvalidatedAuthorizeCode]
        ELSE [r |-> req.r, err |-> NoError]

\* Variant: sql.ErrNoRows is passed on untranslated.
loadSessionBySignature_RawNoRows(db, sessionType, signature, fault) ==
    LET loaded == LoadOAuth2Session(db, sessionType, signature, fault)
        req    == ToRequest(loaded.session)
    IN  IF loaded.err # NoError
        THEN [r |-> NilRequest, err |-> loaded.err]
        ELSE IF req.err # NoError
        THEN [r |-> NilRequest, err |-> req.err]
        ELSE IF ~loaded.session.active /\ sessionType = OAuth2SessionTypeAuthorizeCode
        THEN [r |-> req.r, err |-> ErrInvalidatedAuthorizeCode]
        ELSE [r |-> req.r, err |-> NoError]

loadSessionBySignature(db, sessionType, signature, fault) ==
    LET loaded == LoadOAuth2Session(db, sessionType, signature, fault)
        req    == ToRequest(loaded.session)
    IN  IF loaded.err # NoError
        THEN [r |-> NilRequest, err |-> loadSessionBySignatureError(loaded.err)]
        ELSE IF req.err # NoError
        THEN [r |-> NilRequest, err |-> req.err]
        ELSE IF ~loaded.session.active /\ sessionType = OAuth2SessionTypeAuthorizeCode
        THEN [r |-> req.r, err |-> ErrInvalidatedAuthorizeCode]
        ELSE [r |-> req.r, err |-> NoError]

\* Variant: an existing row is dropped before the insert.
saveSession_Replace(db, sessionType, signature, r) ==
    LET kept == [ k \in DOMAIN db \ {<<sessionType, signature>>} |-> db[k] ]
    IN  SaveOAuth2Session(kept, sessionType, NewOAuth2SessionFromRequest(signature, r))

\* Variant: the provider's error is not returned.
saveSession_SwallowError(db, sessionType, signature, r) ==
    [ db  |-> SaveOAuth2Session(db, sessionType,
                                NewOAuth2SessionFromRequest(signature, r)).db,
      err |-> NoError ]

saveSession(db, sessionType, signature, r) ==
    SaveOAuth2Session(db, sessionType, NewOAuth2SessionFromRequest(signature, r))

\* Variant: a call that changes no row is reported as not found.
revokeSessionBySignature_ErrWhenUnchanged(db, sessionType, signature) ==
    LET res == RevokeOAuth2Session(db, sessionType, signature)
    IN  IF res.db = db THEN [db |-> db, err |-> ErrNotFound] ELSE res

\* Variant: the signature is not part of the WHERE clause, every row of the type is revoked.
revokeSessionBySignature_AllOfType(db, sessionType, signature) ==
    [ db  |-> [ k \in DOMAIN db |->
                  IF k[1] = sessionType
                  THEN [db[k] EXCEPT !.revoked = TRUE] ELSE db[k] ],
      err |-> NoError ]

revokeSessionBySignature(db, sessionType, signature) ==
    RevokeOAuth2Session(db, sessionType, signature)

revokeSessionByRequestID(db, sessionType, requestID) ==
    LET res == RevokeOAuth2SessionByRequestID(db, sessionType, requestID)
    IN  IF res.err # NoError
        THEN IF res.err = ErrNoRows
             THEN [db |-> res.db, err |-> ErrNotFound]
             ELSE [db |-> res.db, err |-> res.err]
        ELSE [db |-> res.db, err |-> NoError]

(***************************************************************************)
(* OpenIDConnectStore: the fosite storage interfaces                       *)
(***************************************************************************)

CreateAuthorizeCodeSession(db, code, request) ==
    saveSession(db, OAuth2SessionTypeAuthorizeCode, code, request)

InvalidateAuthorizeCodeSession(db, code) ==
    DeactivateOAuth2Session(db, OAuth2SessionTypeAuthorizeCode, code)

GetAuthorizeCodeSession(db, code, fault) ==
    loadSessionBySignature(db, OAuth2SessionTypeAuthorizeCode, code, fault)

CreateAccessTokenSession(db, signature, request) ==
    saveSession(db, OAuth2SessionTypeAccessToken, signature, request)

DeleteAccessTokenSession(db, signature) ==
    revokeSessionBySignature(db, OAuth2SessionTypeAccessToken, signature)

RevokeAccessToken(db, requestID) ==
    revokeSessionByRequestID(db, OAuth2SessionTypeAccessToken, requestID)

GetAccessTokenSession(db, signature, fault) ==
    loadSessionBySignature(db, OAuth2SessionTypeAccessToken, signature, fault)

CreateRefreshTokenSession(db, signature, request) ==
    saveSession(db, OAuth2SessionTypeRefreshToken, signature, request)

DeleteRefreshTokenSession(db, signature) ==
    revokeSessionBySignature(db, OAuth2SessionTypeRefreshToken, signature)

\* Variant: the access-token kind is named instead of the refresh-token kind.
RevokeRefreshToken_WrongKind(db, requestID) ==
    DeactivateOAuth2SessionByRequestID(db, OAuth2SessionTypeAccessToken, requestID)

RevokeRefreshToken(db, requestID) ==
    DeactivateOAuth2SessionByRequestID(db, OAuth2SessionTypeRefreshToken, requestID)

RevokeRefreshTokenMaybeGracePeriod(db, requestID, signature) ==
    RevokeRefreshToken(db, requestID)

GetRefreshTokenSession(db, signature, fault) ==
    loadSessionBySignature(db, OAuth2SessionTypeRefreshToken, signature, fault)

CreatePKCERequestSession(db, signature, request) ==
    saveSession(db, OAuth2SessionTypePKCEChallenge, signature, request)

DeletePKCERequestSession(db, signature) ==
    revokeSessionBySignature(db, OAuth2SessionTypeAccessToken, signature)

GetPKCERequestSession(db, signature, fault) ==
    loadSessionBySignature(db, OAuth2SessionTypePKCEChallenge, signature, fault)

\* Variant: the access-token kind is named instead of the OpenID Connect kind.
CreateOpenIDConnectSession_WrongKind(db, authorizeCode, request) ==
    saveSession(db, OAuth2SessionTypeAccessToken, authorizeCode, request)

CreateOpenIDConnectSession(db, authorizeCode, request) ==
    saveSession(db, OAuth2SessionTypeOpenIDConnect, authorizeCode, request)

DeleteOpenIDConnectSession(db, authorizeCode) ==
    revokeSessionBySignature(db, OAuth2SessionTypeAccessToken, authorizeCode)

GetOpenIDConnectSession(db, authorizeCode, fault) ==
    loadSessionBySignature(db, OAuth2SessionTypeOpenIDConnect, authorizeCode, fault)

(***************************************************************************)
(* The state machine: one action per store call                            *)
(***************************************************************************)

CreateOps ==
    { "CreateAuthorizeCodeSession", "CreateAccessTokenSession",
      "CreateRefreshTokenSession", "CreatePKCERequestSession",
      "CreateOpenIDConnectSession" }

GetOps ==
    { "GetAuthorizeCodeSession", "GetAccessTokenSession", "GetRefreshTokenSession",
      "GetPKCERequestSession", "GetOpenIDConnectSession" }

DeleteOps ==
    { "DeleteAccessTokenSession", "DeleteRefreshTokenSession",
      "DeletePKCERequestSession", "DeleteOpenIDConnectSession" }

RevokeAccessOps == { "RevokeAccessToken" }

RevokeRefreshOps == { "RevokeRefreshToken", "RevokeRefreshTokenMaybeGracePeriod" }

\* Token sessions saved under a request ID.
Family(requestID) ==
    { k \in DOMAIN saved :
        /\ k[1] \in {OAuth2SessionTypeAccessToken, OAuth2SessionTypeRefreshToken}
        /\ saved[k].id = requestID }

\* The automatic policy: enabled, Vary, max age and credentials = false set;
\* methods, headers and origins nil (empty), not vary-only.
NewCORSMiddleware ==
    [ enabled |-> TRUE, varyOnly |-> FALSE, methods |-> << >>, headers |-> << >>,
      origins |-> << >>, credentials |-> "false",
      vary |-> "Accept-Encoding, Origin", maxAge |-> "100" ]

Init ==
    /\ sessions = << >>
    /\ last = [ op |-> "none", kind |-> "", sig |-> "", rid |-> "",
                req |-> NilRequest, err |-> NoError, fault |-> FALSE,
                repeat |-> FALSE ]
    /\ nops = 0
    /\ saved = << >>
    /\ consumed = {}
    /\ deleted = {}
    /\ family = {}
    /\ blacklist = << >>
    /\ now = 0
    /\ jlast = [ op |-> "none", jti |-> "", exp |-> 0, at |-> 0,
                 storage |-> "bare", used |-> FALSE, err |-> NoError ]
    /\ marked = << >>
    /\ opaque = << >>
    /\ pc = [ p \in {"task1", "task2"} |->
                [ state |-> "idle", op |-> "", sector |-> "", username |-> "",
                  id |-> "", err |-> NoError, hit |-> FALSE, lost |-> FALSE ] ]
    /\ persisted = {}
    /\ issued = {}
    /\ consents = << >>
    /\ userSession = [ ConsentChallengeID |-> "",
                       AuthenticationLevel |-> NotAuthenticated ]
    /\ clast = [ op |-> "none", id |-> "", challenge |-> "",
                 body |-> [ok |-> FALSE, ClientID |-> "", AcceptOrReject |-> ""],
                 fail |-> "none", status |-> "", cause |-> "", redirect |-> << >>,
                 calls |-> << >>,
                 policy |-> TwoFactor, valid |-> FALSE, presented |-> FALSE ]
    /\ racers = [ p \in {"task1", "task2"} |->
                    [ state |-> "idle", op |-> "", sig |-> "", req |-> NilRequest,
                      r |-> NilRequest, err |-> NoError ] ]
    /\ started = << >>
    /\ rounds = 0
    /\ authn = [ p \in {"task1", "task2"} |->
                   [ state |-> "idle", jti |-> "", exp |-> 0, at |-> 0, err |-> NoError ] ]
    /\ corsPolicy = NewCORSMiddleware
    /\ http = [ served |-> FALSE, handler |-> "",
                req |-> [ Origin |-> "", hasRequestHeaders |-> FALSE,
                          AccessControlRequestHeaders |-> << >>,
                          hasRequestMethod |-> FALSE,
                          AccessControlRequestMethod |-> << >> ],
                resp |-> << >> ]

\* A call of operation op, named for kind, returned (req, err) and left the table db.
Return(op, kind, sig, rid, req, err, fault, db) ==
    /\ nops < MaxOps
    /\ UNCHANGED <<jtiVars, subjectVars, consentVars, raceVars, corsVars>>
    /\ nops' = nops + 1
    /\ sessions' = db
    /\ last' = [ op |-> op, kind |-> kind, sig |-> sig, rid |-> rid,
                 req |-> req, err |-> err, fault |-> fault,
                 repeat |-> (op = last.op /\ sig = last.sig) ]
    /\ saved' =
         IF op \in CreateOps /\ err = NoError /\ <<kind, sig>> \notin DOMAIN saved
         THEN [ k \in DOMAIN saved \cup {<<kind, sig>>} |->
                  IF k = <<kind, sig>> THEN req ELSE saved[k] ]
         ELSE saved
    /\ consumed' =
         IF /\ op = "InvalidateAuthorizeCodeSession"
            /\ err = NoError
            /\ <<kind, sig>> \in DOMAIN saved
         THEN consumed \cup {sig}
         ELSE consumed
    /\ deleted' =
         IF op \in DeleteOps /\ err = NoError /\ <<kind, sig>> \in DOMAIN saved
         THEN deleted \cup {<<kind, sig>>}
         ELSE deleted
    /\ family' =
         IF op \in RevokeAccessOps
         THEN family \cup { <<"RevokeAccessToken", k>> : k \in Family(rid) }
         ELSE IF op \in RevokeRefreshOps
         THEN family \cup { <<"RevokeRefreshToken", k>> : k \in Family(rid) }
         ELSE family

CallCreateAuthorizeCodeSession ==
    \E sig \in Signatures, request \in Requests :
        LET res == CreateAuthorizeCodeSession(sessions, sig, request)
        IN  Return("CreateAuthorizeCodeSession", OAuth2SessionTypeAuthorizeCode, sig, request.id, request, res.err, FALSE, res.db)

CallCreateAccessTokenSession ==
    \E sig \in Signatures, request \in Requests :
        LET res == CreateAccessTokenSession(sessions, sig, request)
        IN  Return("CreateAccessTokenSession", OAuth2SessionTypeAccessToken, sig, request.id, request, res.err, FALSE, res.db)

CallCreateRefreshTokenSession ==
    \E sig \in Signatures, request \in Requests :
        LET res == CreateRefreshTokenSession(sessions, sig, request)
        IN  Return("CreateRefreshTokenSession", OAuth2SessionTypeRefreshToken, sig, request.id, request, res.err, FALSE, res.db)

CallCreatePKCERequestSession ==
    \E sig \in Signatures, request \in Requests :
        LET res == CreatePKCERequestSession(sessions, sig, request)
        IN  Return("CreatePKCERequestSession", OAuth2SessionTypePKCEChallenge, sig, request.id, request, res.err, FALSE, res.db)

CallCreateOpenIDConnectSession ==
    \E sig \in Signatures, request \in Requests :
        LET res == CreateOpenIDConnectSession(sessions, sig, request)
        IN  Return("CreateOpenIDConnectSession", OAuth2SessionTypeOpenIDConnect, sig, request.id, request, res.err, FALSE, res.db)

CallGetAuthorizeCodeSession ==
    \E sig \in Signatures, fault \in BOOLEAN :
        LET res == GetAuthorizeCodeSession(sessions, sig, fault)
        IN  Return("GetAuthorizeCodeSession", OAuth2SessionTypeAuthorizeCode, sig, "", res.r, res.err, fault, sessions)

CallGetAccessTokenSession ==
    \E sig \in Signatures, fault \in BOOLEAN :
        LET res == GetAccessTokenSession(sessions, sig, fault)
        IN  Return("GetAccessTokenSession", OAuth2SessionTypeAccessToken, sig, "", res.r, res.err, fault, sessions)

CallGetRefreshTokenSession ==
    \E sig \in Signatures, fault \in BOOLEAN :
        LET res == GetRefreshTokenSession(sessions, sig, fault)
        IN  Return("GetRefreshTokenSession", OAuth2SessionTypeRefreshToken, sig, "", res.r, res.err, fault, sessions)

CallGetPKCERequestSession ==
    \E sig \in Signatures, fault \in BOOLEAN :
        LET res == GetPKCERequestSession(sessions, sig, fault)
        IN  Return("GetPKCERequestSession", OAuth2SessionTypePKCEChallenge, sig, "", res.r, res.err, fault, sessions)

CallGetOpenIDConnectSession ==
    \E sig \in Signatures, fault \in BOOLEAN :
        LET res == GetOpenIDConnectSession(sessions, sig, fault)
        IN  Return("GetOpenIDConnectSession", OAuth2SessionTypeOpenIDConnect, sig, "", res.r, res.err, fault, sessions)

CallInvalidateAuthorizeCodeSession ==
    \E sig \in Signatures :
        LET res == InvalidateAuthorizeCodeSession(sessions, sig)
        IN  Return("InvalidateAuthorizeCodeSession", OAuth2SessionTypeAuthorizeCode, sig, "", NilRequest, res.err, FALSE, res.db)

CallDeleteAccessTokenSession ==
    \E sig \in Signatures :
        LET res == DeleteAccessTokenSession(sessions, sig)
        IN  Return("DeleteAccessTokenSession", OAuth2SessionTypeAccessToken, sig, "", NilRequest, res.err, FALSE, res.db)

CallDeleteRefreshTokenSession ==
    \E sig \in Signatures :
        LET res == DeleteRefreshTokenSession(sessions, sig)
        IN  Return("DeleteRefreshTokenSession", OAuth2SessionTypeRefreshToken, sig, "", NilRequest, res.err, FALSE, res.db)

CallDeletePKCERequestSession ==
    \E sig \in Signatures :
        LET res == DeletePKCERequestSession(sessions, sig)
        IN  Return("DeletePKCERequestSession", OAuth2SessionTypePKCEChallenge, sig, "", NilRequest, res.err, FALSE, res.db)

CallDeleteOpenIDConnectSession ==
    \E sig \in Signatures :
        LET res == DeleteOpenIDConnectSession(sessions, sig)
        IN  Return("DeleteOpenIDConnectSession", OAuth2SessionTypeOpenIDConnect, sig, "", NilRequest, res.err, FALSE, res.db)

CallRevokeAccessToken ==
    \E requestID \in RequestIDs :
        LET res == RevokeAccessToken(sessions, requestID)
        IN  Return("RevokeAccessToken", OAuth2SessionTypeAccessToken, "", requestID, NilRequest, res.err, FALSE, res.db)

CallRevokeRefreshToken ==
    \E requestID \in RequestIDs :
        LET res == RevokeRefreshToken(sessions, requestID)
        IN  Return("RevokeRefreshToken", OAuth2SessionTypeRefreshToken, "", requestID, NilRequest, res.err, FALSE, res.db)

CallRevokeRefreshTokenMaybeGracePeriod ==
    \E requestID \in RequestIDs, sig \in Signatures :
        LET res == RevokeRefreshTokenMaybeGracePeriod(sessions, requestID, sig)
        IN  Return("RevokeRefreshTokenMaybeGracePeriod", OAuth2SessionTypeRefreshToken,
                   sig, requestID, NilRequest, res.err, FALSE, res.db)

Next ==
    \/ CallCreateAuthorizeCodeSession
    \/ CallCreateAccessTokenSession
    \/ CallCreateRefreshTokenSession
    \/ CallCreatePKCERequestSession
    \/ CallCreateOpenIDConnectSession
    \/ CallGetAuthorizeCodeSession
    \/ CallGetAccessTokenSession
    \/ CallGetRefreshTokenSession
    \/ CallGetPKCERequestSession
    \/ CallGetOpenIDConnectSession
    \/ CallInvalidateAuthorizeCodeSession
    \/ CallDeleteAccessTokenSession
    \/ CallDeleteRefreshTokenSession
    \/ CallDeletePKCERequestSession
    \/ CallDeleteOpenIDConnectSession
    \/ CallRevokeAccessToken
    \/ CallRevokeRefreshToken
    \/ CallRevokeRefreshTokenMaybeGracePeriod

Spec == Init /\ [][Next]_vars

(***************************************************************************)
(* Properties                                                              *)
(***************************************************************************)

\* The get operation of a kind.
GetSession(db, kind, signature, fault) ==
    CASE kind = OAuth2SessionTypeAuthorizeCode ->
           GetAuthorizeCodeSession(db, signature, fault)
      [] kind = OAuth2SessionTypeAccessToken ->
           GetAccessTokenSession(db, signature, fault)
      [] kind = OAuth2SessionTypeRefreshToken ->
           GetRefreshTokenSession(db, signature, fault)
      [] kind = OAuth2SessionTypePKCEChallenge ->
           GetPKCERequestSession(db, signature, fault)
      [] kind = OAuth2SessionTypeOpenIDConnect ->
           GetOpenIDConnectSession(db, signature, fault)

AuthorizeCodeKey(code) == <<OAuth2SessionTypeAuthorizeCode, code>>

C2_ConsumedCodeNeverReusable ==
    /\ \A code \in consumed :
         /\ AuthorizeCodeKey(code) \in DOMAIN sessions
         /\ ~sessions[AuthorizeCodeKey(code)].active
         /\ \A fault \in BOOLEAN :
              GetAuthorizeCodeSession(sessions, code, fault).err # NoError
    /\ (last.op = "GetAuthorizeCodeSession" /\ last.sig \in consumed)
       => last.err # NoError

\* A consumed code is saved again: the call is refused and the code stays consumed.
C2_Witness ==
    /\ last.op = "CreateAuthorizeCodeSession"
    /\ last.sig \in consumed
    /\ last.err # NoError
    /\ ~sessions[AuthorizeCodeKey(last.sig)].active

\* Token sessions for which both family revocations have returned since their save.
FamilyRevoked ==
    { k \in DOMAIN saved :
        /\ <<"RevokeAccessToken", k>> \in family
        /\ <<"RevokeRefreshToken", k>> \in family }

\* C3 (as claimed): after RevokeRefreshToken(requestID) and
\* RevokeAccessToken(requestID) have both returned, every
\* GetRefreshTokenSession and GetAccessTokenSession for a signature saved
\* with that request ID fails.
C3_FamilyRevocationLeavesNoValidToken ==
    \A k \in FamilyRevoked :
        GetSession(sessions, k[1], k[2], FALSE).err # NoError

\* A row that is marked inactive or revoked.
Deactivated(row) == ~row.active \/ row.revoked

\* Two rows persist the same request under the same signature.
SameContent(a, b) ==
    /\ a.signature = b.signature
    /\ a.request_id = b.request_id
    /\ a.client_id = b.client_id
    /\ a.subject = b.subject
    /\ a.form = b.form

RevokeByRequestIDOps == RevokeAccessOps \cup RevokeRefreshOps

C4_Step ==
    last'.op \in RevokeByRequestIDOps =>
        /\ DOMAIN sessions' = DOMAIN sessions
        /\ \A k \in DOMAIN sessions :
             IF k[1] = last'.kind /\ sessions[k].request_id = last'.rid
             THEN /\ Deactivated(sessions'[k])
                  /\ SameContent(sessions'[k], sessions[k])
             ELSE sessions'[k] = sessions[k]

\* C4: a revoke by request ID (RevokeAccessToken, RevokeRefreshToken) leaves
\* every row of its kind that shares the request ID deactivated, with its
\* content kept, and leaves every other row (another request ID, another
\* kind) exactly as it was; it adds and removes no row.
C4_RevokeByRequestIDFrame == [][C4_Step]_vars

\* A revoke by request ID hit one row of its kind and spared another of the
\* same kind saved under a different request ID.
C4_Witness ==
    /\ last.op \in RevokeByRequestIDOps
    /\ last.err = NoError
    /\ \E k1, k2 \in DOMAIN sessions :
         /\ k1[1] = last.kind /\ k2[1] = last.kind
         /\ sessions[k1].request_id = last.rid
         /\ Deactivated(sessions[k1])
         /\ sessions[k2].request_id # last.rid
         /\ ~Deactivated(sessions[k2])

C5_Step ==
    \A k \in DOMAIN sessions \cup DOMAIN sessions' :
        k[1] # last'.kind =>
            /\ k \in DOMAIN sessions
            /\ k \in DOMAIN sessions'
            /\ sessions'[k] = sessions[k]

\* C5 (as claimed): a store call for kind K changes only rows of kind K; a
\* session of another kind, also one stored under the same signature, is
\* left unchanged.
C5_CallsTouchOnlyTheirKind == [][C5_Step]_vars

\* C6 (as claimed): for AccessToken, RefreshToken, PKCEChallenge and
\* OpenIDConnect, once a saved session's delete-by-signature call has
\* succeeded, the kind's get for that signature never returns a plain
\* success.
C6_DeletedSessionNotLoadable ==
    \A k \in deleted :
        GetSession(sessions, k[1], k[2], FALSE).err # NoError

C7_Step ==
    (last'.op \in CreateOps /\ <<last'.kind, last'.sig>> \in DOMAIN sessions) =>
        /\ last'.err = ErrConflict
        /\ sessions' = sessions

\* C7: a save for a (kind, signature) that already has a row fails with the
\* provider's conflict error and leaves the table, the existing row
\* included, unchanged.
C7_SaveConflictKeepsRow == [][C7_Step]_vars

\* A save of a different request under a taken (kind, signature) was
\* refused, and the row still holds the request saved first.
C7_Witness ==
    /\ last.op \in CreateOps
    /\ last.err = ErrConflict
    /\ <<last.kind, last.sig>> \in DOMAIN saved
    /\ saved[<<last.kind, last.sig>>] # last.req
    /\ ToRequest(sessions[<<last.kind, last.sig>>]).r = saved[<<last.kind, last.sig>>]

C8_Step ==
    ( /\ last.op \in CreateOps
      /\ last.err = NoError
      /\ last'.op \in GetOps
      /\ last'.kind = last.kind
      /\ last'.sig = last.sig
      /\ ~last'.fault )
    => /\ last'.err = NoError
       /\ last'.req = last.req

\* C8: for every kind, a successful save (the signature was free) followed
\* by the kind's load of the same signature returns, with a nil error, a
\* request equal to the one saved (request ID, client, subject, form),
\* unless the storage read itself fails.
C8_SaveThenLoadRoundTrip == [][C8_Step]_vars

\* The first call saved a session and the second loaded it back.
C8_Witness ==
    /\ nops = 2
    /\ last.op \in GetOps
    /\ last.err = NoError
    /\ DOMAIN saved = {<<last.kind, last.sig>>}
    /\ last.req = saved[<<last.kind, last.sig>>]
    /\ last.req \in Requests

\* C9: a load for a (kind, signature) with no row fails with
\* fosite.ErrNotFound and a nil request; a storage failure of the read is
\* returned as that error with a nil request, never as a session. This
\* holds of every get call made and of every get that could be made.
C9_LoadAbsentIsNotFound ==
    /\ \A kind \in Kinds, sig \in Signatures :
         /\ <<kind, sig>> \notin DOMAIN sessions
            => GetSession(sessions, kind, sig, FALSE)
                 = [r |-> NilRequest, err |-> ErrNotFound]
         /\ GetSession(sessions, kind, sig, TRUE)
              = [r |-> NilRequest, err |-> ErrStorage]
    /\ last.op \in GetOps =>
         /\ (~last.fault /\ <<last.kind, last.sig>> \notin DOMAIN sessions)
            => (last.err = ErrNotFound /\ last.req = NilRequest)
         /\ last.fault => (last.err = ErrStorage /\ last.req = NilRequest)
         /\ last.err \notin {NoError, ErrInvalidatedAuthorizeCode}
            => last.req = NilRequest

\* A get found no row of its kind although the signature is taken under
\* another kind.
C9_Witness ==
    /\ last.op \in GetOps
    /\ ~last.fault
    /\ <<last.kind, last.sig>> \notin DOMAIN sessions
    /\ \E k \in DOMAIN sessions : k[2] = last.sig
    /\ last.err = ErrNotFound
    /\ last.req = NilRequest

DeactivateBySignatureOps == DeleteOps \cup {"InvalidateAuthorizeCodeSession"}

C10_Step ==
    ( /\ last'.op \in DeactivateBySignatureOps
      /\ last'.repeat
      /\ last.err = NoError )
    => /\ last'.err = NoError
       /\ sessions' = sessions

\* C10: a deactivate-by-signature call (InvalidateAuthorizeCodeSession, the
\* Delete...Session calls) that repeats the successful call before it
\* succeeds as well and changes nothing: twice is the same as once.
C10_DeactivateBySignatureIdempotent == [][C10_Step]_vars

\* An authorization code was invalidated a second time in a row.
C10_Witness ==
    /\ last.op = "InvalidateAuthorizeCodeSession"
    /\ last.repeat
    /\ last.err = NoError
    /\ last.sig \in consumed
    /\ ~sessions[AuthorizeCodeKey(last.sig)].active

MaxTime == 2

Times == 0 .. MaxTime

JTIs == {"jti1", "jti2"}

\* How the provider answers a read: it works and reports a missing row as the
\* bare sql.ErrNoRows, it works and reports a missing row as an error wrapping
\* sql.ErrNoRows, or it fails.
StorageModes == {"bare", "wrapped", "fault"}

ErrJTIKnown == "fosite.ErrJTIKnown"

\* fmt.Sprintf("%x", sha256.Sum256([]byte(jti)))
Digest(jti) == <<"sha256", jti>>

\* t.After(u)
After(t, u) == t > u

NewOAuth2BlacklistedJTI(jti, exp) ==
    [ signature |-> Digest(jti), expires_at |-> exp ]

NilBlacklistedJTI == [ signature |-> << >>, expires_at |-> 0 ]

\* The row of a signature is written, replacing the row an earlier mark left.
SaveOAuth2BlacklistedJTI(db, row) ==
    [ db  |-> [ k \in DOMAIN db \cup {row.signature} |->
                  IF k = row.signature THEN row ELSE db[k] ],
      err |-> NoError ]

LoadOAuth2BlacklistedJTI(db, signature, storage) ==
    IF storage = "fault"
    THEN [row |-> NilBlacklistedJTI, err |-> ErrStorage]
    ELSE IF signature \in DOMAIN db
    THEN [row |-> db[signature], err |-> NoError]
    ELSE [row |-> NilBlacklistedJTI,
          err |-> IF storage = "wrapped" THEN ErrWrappedNoRows ELSE ErrNoRows]

ClientAssertionJWTValid_IgnoreExpiry(db, t, jti, storage) ==
    LET signature == Digest(jti)
        loaded == LoadOAuth2BlacklistedJTI(db, signature, storage)
    IN  IF ErrorsIs(ErrNoRows, loaded.err) THEN NoError
        ELSE IF loaded.err # NoError THEN loaded.err
        ELSE ErrJTIKnown

\* The switch of ClientAssertionJWTValid, its cases tried in order; the first
\* case calls errors.Is with sql.ErrNoRows as the error and err as the target.
ClientAssertionJWTValid(db, t, jti, storage) ==
    LET signature == Digest(jti)
        loaded == LoadOAuth2BlacklistedJTI(db, signature, storage)
    IN  IF ErrorsIs(ErrNoRows, loaded.err) THEN NoError
        ELSE IF loaded.err # NoError THEN loaded.err
        ELSE IF After(loaded.row.expires_at, t) THEN ErrJTIKnown
        ELSE NoError

SetClientAssertionJWT(db, jti, exp) ==
    SaveOAuth2BlacklistedJTI(db, NewOAuth2BlacklistedJTI(jti, exp))

IsJWTUsed(db, t, jti, storage) ==
    LET err == ClientAssertionJWTValid(db, t, jti, storage)
    IN  IF err # NoError
        THEN [used |-> TRUE, err |-> err]
        ELSE [used |-> FALSE, err |-> NoError]

MarkJWTUsedForTime(db, jti, exp) == SetClientAssertionJWT(db, jti, exp)

CheckJTIOps == {"ClientAssertionJWTValid", "IsJWTUsed"}

MarkJTIOps == {"SetClientAssertionJWT", "MarkJWTUsedForTime"}

\* A JTI call returned; a successful mark is remembered with its expiry.
ReturnJTI(op, jti, exp, storage, used, err, db) ==
    /\ blacklist' = db
    /\ jlast' = [ op |-> op, jti |-> jti, exp |-> exp, at |-> now,
                  storage |-> storage, used |-> used, err |-> err ]
    /\ marked' =
         IF op \in MarkJTIOps /\ err = NoError
         THEN [ j \in DOMAIN marked \cup {jti} |->
                  IF j = jti THEN exp ELSE marked[j] ]
         ELSE marked
    /\ UNCHANGED <<now, sessionVars, subjectVars, consentVars, raceVars, corsVars>>

CallClientAssertionJWTValid ==
    \E jti \in JTIs, storage \in StorageModes :
        ReturnJTI("ClientAssertionJWTValid", jti, 0, storage,
                  ClientAssertionJWTValid(blacklist, now, jti, storage) # NoError,
                  ClientAssertionJWTValid(blacklist, now, jti, storage), blacklist)

CallIsJWTUsed ==
    \E jti \in JTIs, storage \in StorageModes :
        LET res == IsJWTUsed(blacklist, now, jti, storage)
        IN  ReturnJTI("IsJWTUsed", jti, 0, storage, res.used, res.err, blacklist)

CallSetClientAssertionJWT ==
    \E jti \in JTIs, exp \in Times :
        LET res == SetClientAssertionJWT(blacklist, jti, exp)
        IN  ReturnJTI("SetClientAssertionJWT", jti, exp, "bare", FALSE, res.err, res.db)

CallMarkJWTUsedForTime ==
    \E jti \in JTIs, exp \in Times :
        LET res == MarkJWTUsedForTime(blacklist, jti, exp)
        IN  ReturnJTI("MarkJWTUsedForTime", jti, exp, "bare", FALSE, res.err, res.db)

\* Time passes.
Tick ==
    /\ now < MaxTime
    /\ now' = now + 1
    /\ UNCHANGED <<blacklist, jlast, marked, sessionVars, subjectVars, consentVars, raceVars, corsVars>>

NextJTI ==
    \/ CallClientAssertionJWTValid
    \/ CallIsJWTUsed
    \/ CallSetClientAssertionJWT
    \/ CallMarkJWTUsedForTime
    \/ Tick

SpecJTI == Init /\ [][NextJTI]_vars

\* A JTI is known at a time when its latest mark expires after that time.
KnownAt(jti, t) == jti \in DOMAIN marked /\ marked[jti] > t

\* C12: for a JTI that was marked used, the check (ClientAssertionJWTValid,
\* IsJWTUsed) on working storage returns nil when the expiry of the mark has
\* passed and fosite.ErrJTIKnown when the expiry is still in the future; this
\* is so of the last check made and of a check made now.
C12_ExpiredJTINotReplay ==
    /\ ( /\ jlast.op \in CheckJTIOps
         /\ jlast.storage # "fault"
         /\ jlast.jti \in DOMAIN marked )
       => jlast.err = IF KnownAt(jlast.jti, jlast.at) THEN ErrJTIKnown ELSE NoError
    /\ \A jti \in DOMAIN marked, storage \in StorageModes \ {"fault"} :
          /\ ClientAssertionJWTValid(blacklist, now, jti, storage)
               = IF KnownAt(jti, now) THEN ErrJTIKnown ELSE NoError
          /\ IsJWTUsed(blacklist, now, jti, storage).err
               = IF KnownAt(jti, now) THEN ErrJTIKnown ELSE NoError

\* A JTI marked with an expiry that was ahead of the clock was checked once
\* that expiry had passed and found unused, while another JTI is still known.
C12_Witness ==
    /\ jlast.op = "IsJWTUsed"
    /\ jlast.jti \in DOMAIN marked
    /\ marked[jlast.jti] > 0
    /\ marked[jlast.jti] <= jlast.at
    /\ jlast.err = NoError
    /\ ~jlast.used
    /\ \E other \in DOMAIN marked :
          /\ KnownAt(other, now)
          /\ ClientAssertionJWTValid(blacklist, now, other, "bare") = ErrJTIKnown

\* C13: the check returns an error if the JTI is known or the storage read
\* failed and nil if the JTI is not known, and IsJWTUsed reports used exactly
\* when the check returns an error, with a nil error otherwise.
C13_CheckErrorIffKnownOrFailed ==
    jlast.op \in CheckJTIOps =>
        /\ (KnownAt(jlast.jti, jlast.at) \/ jlast.storage = "fault")
              => jlast.err # NoError
        /\ (~KnownAt(jlast.jti, jlast.at) /\ jlast.storage # "fault")
              => jlast.err = NoError
        /\ jlast.used <=> jlast.err # NoError

(***************************************************************************)
(* Opaque subject identifiers                                              *)
(***************************************************************************)

Tasks == {"task1", "task2"}

SectorIDs == {"", "sector1"}

Usernames == {"john"}

\* Values uuid.NewRandom can return.
UUIDs == {"uuid1", "uuid2"}

\* uuid.UUID{}
ZeroUUID == "00000000-0000-0000-0000-000000000000"

Triple(sectorID, username) == <<"openid", sectorID, username>>

\* SELECT by (service, sector, username): no row is (nil, nil).
LoadUserOpaqueIdentifierBySignature(db, sectorID, username, fault) ==
    IF fault
    THEN [found |-> FALSE, id |-> ZeroUUID, err |-> ErrStorage]
    ELSE IF Triple(sectorID, username) \in DOMAIN db
    THEN [found |-> TRUE, id |-> db[Triple(sectorID, username)], err |-> NoError]
    ELSE [found |-> FALSE, id |-> ZeroUUID, err |-> NoError]

\* INSERT: the table's unique constraint on the triple refuses a second row.
SaveUserOpaqueIdentifier(db, sectorID, username, id) ==
    IF Triple(sectorID, username) \in DOMAIN db
    THEN [db |-> db, err |-> ErrConflict]
    ELSE [ db  |-> [ k \in DOMAIN db \cup {Triple(sectorID, username)} |->
                       IF k = Triple(sectorID, username) THEN id ELSE db[k] ],
           err |-> NoError ]

GenerateOpaqueUserIDLoad_AlwaysNew(db, sectorID, username, fault, fresh) ==
    LET loaded == LoadUserOpaqueIdentifierBySignature(db, sectorID, username, fault)
    IN  IF loaded.err # NoError
        THEN [done |-> TRUE, id |-> ZeroUUID, err |-> loaded.err]
        ELSE [done |-> FALSE, id |-> fresh, err |-> NoError]

\* GenerateOpaqueUserID up to its save: the load, and on a miss the new
\* identifier (fresh is the UUID that model.NewUserOpaqueIdentifier draws).
GenerateOpaqueUserIDLoad(db, sectorID, username, fault, fresh) ==
    LET loaded == LoadUserOpaqueIdentifierBySignature(db, sectorID, username, fault)
    IN  IF loaded.err # NoError
        THEN [done |-> TRUE, id |-> ZeroUUID, err |-> loaded.err]
        ELSE IF ~loaded.found
        THEN [done |-> FALSE, id |-> fresh, err |-> NoError]
        ELSE [done |-> TRUE, id |-> loaded.id, err |-> NoError]

GenerateOpaqueUserIDSave_SwallowError(db, sectorID, username, id) ==
    [ db |-> SaveUserOpaqueIdentifier(db, sectorID, username, id).db,
      id |-> id, err |-> NoError ]

\* GenerateOpaqueUserID from its save on: the save's error is returned with
\* the identifier that was not saved.
GenerateOpaqueUserIDSave(db, sectorID, username, id) ==
    LET res == SaveUserOpaqueIdentifier(db, sectorID, username, id)
    IN  [db |-> res.db, id |-> id, err |-> res.err]

\* What the caller gets: GenerateOpaqueUserID returns (opaqueID, err),
\* GetSubject returns opaqueID.Identifier or the zero subject with the error.
GetSubject(op, id, err) ==
    IF op = "GetSubject" /\ err # NoError THEN ZeroUUID ELSE id

\* A task's call returned (id, err) for its triple, leaving the table db.
ReturnSubject(p, op, sectorID, username, id, err, hit, lost, db) ==
    /\ opaque' = db
    /\ pc' = [pc EXCEPT ![p] =
                [ state |-> "returned", op |-> op, sector |-> sectorID,
                  username |-> username, id |-> GetSubject(op, id, err),
                  err |-> err, hit |-> hit, lost |-> lost ]]
    /\ persisted' = persisted \cup
         { <<k, db[k]>> : k \in { x \in DOMAIN db :
                                    x \notin DOMAIN opaque \/ db[x] # opaque[x] } }
    /\ issued' = IF err = NoError
                 THEN issued \cup {<<Triple(sectorID, username), id>>}
                 ELSE issued
    /\ UNCHANGED <<sessionVars, jtiVars, consentVars, raceVars, corsVars>>

\* A task calls GetSubject or GenerateOpaqueUserID and runs it up to the save:
\* it returns on a row found or a failed read, and stands before the save
\* otherwise.
CallGenerateOpaqueUserID(p) ==
    /\ pc[p].state # "missed"
    /\ \E op \in {"GetSubject", "GenerateOpaqueUserID"},
          sectorID \in SectorIDs, username \in Usernames,
          fault \in BOOLEAN, fresh \in UUIDs :
          LET res == GenerateOpaqueUserIDLoad(opaque, sectorID, username, fault, fresh)
          IN  IF res.done
              THEN ReturnSubject(p, op, sectorID, username, res.id, res.err,
                                 res.err = NoError, FALSE, opaque)
              ELSE /\ pc' = [pc EXCEPT ![p] =
                               [ state |-> "missed", op |-> op, sector |-> sectorID,
                                 username |-> username, id |-> res.id,
                                 err |-> NoError, hit |-> FALSE, lost |-> FALSE ]]
                   /\ UNCHANGED <<opaque, persisted, issued, sessionVars, jtiVars, consentVars, raceVars, corsVars>>

\* A task that missed saves its new identifier and returns.
SaveGeneratedOpaqueUserID(p) ==
    /\ pc[p].state = "missed"
    /\ LET res == GenerateOpaqueUserIDSave(opaque, pc[p].sector, pc[p].username, pc[p].id)
       IN  ReturnSubject(p, pc[p].op, pc[p].sector, pc[p].username, res.id, res.err,
                         FALSE, Triple(pc[p].sector, pc[p].username) \in DOMAIN opaque,
                         res.db)

NextSubject ==
    \E p \in Tasks :
        \/ CallGenerateOpaqueUserID(p)
        \/ SaveGeneratedOpaqueUserID(p)

SpecSubject == Init /\ [][NextSubject]_vars

\* The UUIDs ever written for a triple.
PersistedFor(triple) == { e[2] : e \in { x \in persisted : x[1] = triple } }

\* C14: whatever the interleaving of two first-time calls for one triple, at
\* most one UUID is ever persisted for the triple, and every UUID returned
\* with a nil error for the triple is the persisted one.
C14_RaceYieldsOneUUID ==
    /\ \A sectorID \in SectorIDs, username \in Usernames :
          Cardinality(PersistedFor(Triple(sectorID, username))) <= 1
    /\ \A e \in issued :
          /\ e[1] \in DOMAIN opaque
          /\ opaque[e[1]] = e[2]
          /\ PersistedFor(e[1]) = {e[2]}

\* Two tasks both missed the same triple and drew different UUIDs; one saved
\* its UUID and returned it, the other's save was refused.
C14_Witness ==
    \E p \in Tasks, q \in Tasks :
        /\ pc[p].state = "returned" /\ pc[q].state = "returned"
        /\ pc[p].op = "GenerateOpaqueUserID" /\ pc[q].op = "GenerateOpaqueUserID"
        /\ pc[p].sector = pc[q].sector /\ pc[p].username = pc[q].username
        /\ pc[p].err = NoError /\ ~pc[p].hit
        /\ pc[q].lost /\ pc[q].err = ErrConflict
        /\ pc[q].id # pc[p].id
        /\ opaque[Triple(pc[p].sector, pc[p].username)] = pc[p].id

\* C15: the call that loses the race on the unique constraint returns no
\* error: it returns the UUID that the winner stored.
C15_RaceLoserReturnsWinner ==
    \A p \in Tasks :
        (pc[p].state = "returned" /\ pc[p].lost) =>
            /\ pc[p].err = NoError
            /\ pc[p].id = opaque[Triple(pc[p].sector, pc[p].username)]

C16_Step ==
    /\ \A k \in DOMAIN opaque : k \in DOMAIN opaque' /\ opaque'[k] = opaque[k]
    /\ \A p \in Tasks :
          (pc'[p] # pc[p] /\ pc'[p].state = "returned") =>
             LET k == Triple(pc'[p].sector, pc'[p].username)
             IN  /\ pc'[p].err = NoError =>
                       /\ k \in DOMAIN opaque' /\ pc'[p].id = opaque'[k]
                       /\ \A e \in persisted' : e[1] = k => e[2] = pc'[p].id
                 /\ (k \in DOMAIN opaque /\ pc[p].state # "missed"
                       /\ pc'[p].err # ErrStorage) =>
                       /\ pc'[p].err = NoError
                       /\ pc'[p].id = opaque[k]
    /\ \A p \in Tasks :
          (pc[p].state # "missed" /\ pc'[p].state = "missed") =>
             Triple(pc'[p].sector, pc'[p].username) \notin DOMAIN opaque

\* C16: no step changes or removes the UUID stored for a triple or writes a
\* second one for it; a call that returns with a nil error returns the one
\* UUID ever persisted for its triple; and a call made once the triple has its
\* row draws no new UUID and returns the stored one with a nil error (unless
\* the storage read fails).
C16_SubjectIdempotentImmutable == [][C16_Step]_vars

\* A call found the row that an earlier call had written and returned its UUID.
C16_Witness ==
    \E p \in Tasks, q \in Tasks :
        /\ p # q
        /\ pc[p].state = "returned" /\ pc[p].hit /\ pc[p].err = NoError
        /\ pc[q].state = "returned" /\ ~pc[q].hit /\ pc[q].err = NoError
        /\ pc[p].sector = pc[q].sector /\ pc[p].username = pc[q].username
        /\ pc[p].id = pc[q].id
        /\ <<Triple(pc[p].sector, pc[p].username), pc[p].id>> \in persisted

(***************************************************************************)
(* Client registry calls and the consent handlers                          *)
(***************************************************************************)

Challenges == {"challenge1", "challenge2"}

\* The consent sessions the authorization endpoint opens: client, requested
\* scopes and audience, and the stored form of the authorization request (a
\* form that does not parse is "%").
ConsentRequests ==
    { [ client_id |-> "app1", requested_scopes |-> <<"openid", "profile">>,
        requested_audience |-> <<"api">>, form |-> "scope=openid+profile" ],
      [ client_id |-> "app2", requested_scopes |-> <<"openid">>,
        requested_audience |-> <<"api", "app2">>, form |-> "scope=openid" ],
      [ client_id |-> "app1", requested_scopes |-> <<"openid">>,
        requested_audience |-> << >>, form |-> "%" ],
      [ client_id |-> "app3", requested_scopes |-> <<"openid">>,
        requested_audience |-> << >>, form |-> "scope=openid" ] }

\* The bodies posted: one that is not JSON, and every client ID and verb.
ConsentPostRequestBodies ==
    { [ok |-> FALSE, ClientID |-> "", AcceptOrReject |-> ""] } \cup
    [ ok : {TRUE}, ClientID : clients, AcceptOrReject : {"accept", "reject", "maybe"} ]

\* The call of the handler that fails, if one does: the consent-session load,
\* ctx.ExternalRootURL, or the consent-response save.
ConsentFailures == {"none", "load", "rooturl", "save"}

ExternalRootURL == "https://auth.example.com"

AuthorizationPath == "/api/oidc/authorization"

\* utils.IsStringInSlice
IsStringInSlice(needle, haystack) ==
    \E i \in 1 .. Len(haystack) : haystack[i] = needle

\* oidc.Client.IsAuthenticationLevelSufficient
IsAuthenticationLevelSufficient(client, level) == level >= ClientPolicy[client]

\* model.OAuth2ConsentSession.GetForm: url.ParseQuery of the stored form.
GetForm(consent) ==
    IF consent.form = "%"
    THEN [form |-> "", err |-> ErrClient]
    ELSE [form |-> consent.form, err |-> NoError]

NilConsent ==
    [ challenge_id |-> "", client_id |-> "", requested_scopes |-> << >>,
      requested_audience |-> << >>, granted_scopes |-> << >>,
      granted_audience |-> << >>, form |-> "", responded |-> FALSE,
      authorized |-> FALSE ]

LoadOAuth2ConsentSessionByChallengeID(db, challengeID, fault) ==
    IF fault THEN [consent |-> NilConsent, err |-> ErrStorage]
    ELSE IF challengeID \notin DOMAIN db THEN [consent |-> NilConsent, err |-> ErrNoRows]
    ELSE [consent |-> db[challengeID], err |-> NoError]

\* UPDATE of the row of the consent session: the response (authorized or
\* not) with the granted scopes and audience the session carries.
SaveOAuth2ConsentSessionResponse(db, consent, authorized, fault) ==
    IF fault THEN [db |-> db, err |-> ErrStorage]
    ELSE [ db  |-> [ db EXCEPT ![consent.challenge_id] =
                       [ @ EXCEPT !.responded = TRUE,
                                  !.authorized = authorized,
                                  !.granted_scopes = consent.granted_scopes,
                                  !.granted_audience = consent.granted_audience ] ],
           err |-> NoError ]

oidcConsentGetSessionsAndClient_LoadFirst(db, us, fail) ==
    LET loaded == LoadOAuth2ConsentSessionByChallengeID(db, us.ConsentChallengeID,
                                                        fail = "load")
        found  == GetFullClient(loaded.consent.client_id)
    IN  IF loaded.err # NoError
        THEN [ret |-> TRUE, cause |-> "ConsentNotLoaded", calls |-> <<"LoadOAuth2ConsentSessionByChallengeID">>,
              consent |-> NilConsent, client |-> ""]
        ELSE IF us.ConsentChallengeID = ""
        THEN [ret |-> TRUE, cause |-> "NoChallenge", calls |-> << >>,
              consent |-> NilConsent, client |-> ""]
        ELSE IF found.err # NoError
        THEN [ret |-> TRUE, cause |-> "ClientNotFound", calls |-> <<"LoadOAuth2ConsentSessionByChallengeID">>,
              consent |-> NilConsent, client |-> ""]
        ELSE [ret |-> FALSE, cause |-> "", calls |-> <<"LoadOAuth2ConsentSessionByChallengeID">>,
              consent |-> loaded.consent, client |-> found.client]

\* The user session must name a challenge, the consent session must load and
\* its client must be registered; each failure is answered Forbidden.  calls
\* lists the storage provider methods called.
oidcConsentGetSessionsAndClient(db, us, fail) ==
    LET loaded == LoadOAuth2ConsentSessionByChallengeID(db, us.ConsentChallengeID,
                                                        fail = "load")
        found  == GetFullClient(loaded.consent.client_id)
    IN  IF us.ConsentChallengeID = ""
        THEN [ret |-> TRUE, cause |-> "NoChallenge", calls |-> << >>,
              consent |-> NilConsent, client |-> ""]
        ELSE IF loaded.err # NoError
        THEN [ret |-> TRUE, cause |-> "ConsentNotLoaded", calls |-> <<"LoadOAuth2ConsentSessionByChallengeID">>,
              consent |-> NilConsent, client |-> ""]
        ELSE IF found.err # NoError
        THEN [ret |-> TRUE, cause |-> "ClientNotFound", calls |-> <<"LoadOAuth2ConsentSessionByChallengeID">>,
              consent |-> NilConsent, client |-> ""]
        ELSE [ret |-> FALSE, cause |-> "", calls |-> <<"LoadOAuth2ConsentSessionByChallengeID">>,
              consent |-> loaded.consent, client |-> found.client]

\* GET: the status of the reply and, for the log, why.
oidcConsent(db, us, fail) ==
    LET got == oidcConsentGetSessionsAndClient(db, us, fail)
    IN  IF got.ret
        THEN [status |-> "Forbidden", cause |-> got.cause, calls |-> got.calls]
        ELSE IF ~IsAuthenticationLevelSufficient(got.client, us.AuthenticationLevel)
        THEN [status |-> "Forbidden", cause |-> "InsufficientAuthLevel", calls |-> got.calls]
        ELSE [status |-> "OK", cause |-> "", calls |-> got.calls]

oidcConsentPOST_NoLevelCheck(db, us, body, fail) ==
    LET got     == oidcConsentGetSessionsAndClient(db, us, fail)
        consent == got.consent
        form    == GetForm(consent)
        authorized == body.AcceptOrReject = "accept"
        accepted ==
            [ consent EXCEPT
                !.granted_scopes = consent.requested_scopes,
                !.granted_audience =
                    IF IsStringInSlice(consent.client_id, consent.requested_audience)
                    THEN consent.requested_audience
                    ELSE Append(consent.requested_audience, consent.client_id) ]
        stored  == SaveOAuth2ConsentSessionResponse(
                       db, IF authorized THEN accepted ELSE consent, authorized,
                       fail = "save")
        Reply(status, cause, calls) ==
            [ db |-> db, status |-> status, cause |-> cause, redirect |-> << >>,
              calls |-> calls ]
        andSave == Append(got.calls, "SaveOAuth2ConsentSessionResponse")
    IN  IF ~body.ok THEN Reply("KO", "BodyParse", << >>)
        ELSE IF got.ret THEN Reply("Forbidden", got.cause, got.calls)
        ELSE IF consent.client_id # body.ClientID THEN Reply("KO", "ClientMismatch", got.calls)
        ELSE IF form.err # NoError THEN Reply("KO", "CorruptSession", got.calls)
        ELSE IF authorized /\ fail = "rooturl" THEN Reply("KO", "NoExternalRootURL", got.calls)
        ELSE IF body.AcceptOrReject \notin {"accept", "reject"}
        THEN Reply("BadRequest", "InvalidDecision", got.calls)
        ELSE IF stored.err # NoError THEN Reply("KO", "ResponseNotSaved", andSave)
        ELSE [ db |-> stored.db, status |-> "OK", cause |-> "",
               redirect |-> << IF authorized THEN ExternalRootURL ELSE "",
                               AuthorizationPath, form.form >>,
               calls |-> andSave ]

oidcConsentPOST_MismatchAfterSave(db, us, body, fail) ==
    LET got     == oidcConsentGetSessionsAndClient(db, us, fail)
        consent == got.consent
        form    == GetForm(consent)
        authorized == body.AcceptOrReject = "accept"
        accepted ==
            [ consent EXCEPT
                !.granted_scopes = consent.requested_scopes,
                !.granted_audience =
                    IF IsStringInSlice(consent.client_id, consent.requested_audience)
                    THEN consent.requested_audience
                    ELSE Append(consent.requested_audience, consent.client_id) ]
        stored  == SaveOAuth2ConsentSessionResponse(
                       db, IF authorized THEN accepted ELSE consent, authorized,
                       fail = "save")
        Reply(status, cause, calls) ==
            [ db |-> db, status |-> status, cause |-> cause, redirect |-> << >>,
              calls |-> calls ]
        andSave == Append(got.calls, "SaveOAuth2ConsentSessionResponse")
    IN  IF ~body.ok THEN Reply("KO", "BodyParse", << >>)
        ELSE IF got.ret THEN Reply("Forbidden", got.cause, got.calls)
        ELSE IF ~IsAuthenticationLevelSufficient(got.client, us.AuthenticationLevel)
        THEN Reply("Forbidden", "InsufficientAuthLevel", got.calls)
        ELSE IF form.err # NoError THEN Reply("KO", "CorruptSession", got.calls)
        ELSE IF authorized /\ fail = "rooturl" THEN Reply("KO", "NoExternalRootURL", got.calls)
        ELSE IF body.AcceptOrReject \notin {"accept", "reject"}
        THEN Reply("BadRequest", "InvalidDecision", got.calls)
        ELSE IF stored.err # NoError THEN Reply("KO", "ResponseNotSaved", andSave)
        ELSE IF consent.client_id # body.ClientID
        THEN [ db |-> stored.db, status |-> "KO", cause |-> "ClientMismatch",
               redirect |-> << >>, calls |-> andSave ]
        ELSE [ db |-> stored.db, status |-> "OK", cause |-> "",
               redirect |-> << IF authorized THEN ExternalRootURL ELSE "",
                               AuthorizationPath, form.form >>,
               calls |-> andSave ]

oidcConsentPOST_AudienceAsRequested(db, us, body, fail) ==
    LET got     == oidcConsentGetSessionsAndClient(db, us, fail)
        consent == got.consent
        form    == GetForm(consent)
        authorized == body.AcceptOrReject = "accept"
        accepted ==
            [ consent EXCEPT
                !.granted_scopes = consent.requested_scopes,
                !.granted_audience = consent.requested_audience ]
        stored  == SaveOAuth2ConsentSessionResponse(
                       db, IF authorized THEN accepted ELSE consent, authorized,
                       fail = "save")
        Reply(status, cause, calls) ==
            [ db |-> db, status |-> status, cause |-> cause, redirect |-> << >>,
              calls |-> calls ]
        andSave == Append(got.calls, "SaveOAuth2ConsentSessionResponse")
    IN  IF ~body.ok THEN Reply("KO", "BodyParse", << >>)
        ELSE IF got.ret THEN Reply("Forbidden", got.cause, got.calls)
        ELSE IF ~IsAuthenticationLevelSufficient(got.client, us.AuthenticationLevel)
        THEN Reply("Forbidden", "InsufficientAuthLevel", got.calls)
        ELSE IF consent.client_id # body.ClientID THEN Reply("KO", "ClientMismatch", got.calls)
        ELSE IF form.err # NoError THEN Reply("KO", "CorruptSession", got.calls)
        ELSE IF authorized /\ fail = "rooturl" THEN Reply("KO", "NoExternalRootURL", got.calls)
        ELSE IF body.AcceptOrReject \notin {"accept", "reject"}
        THEN Reply("BadRequest", "InvalidDecision", got.calls)
        ELSE IF stored.err # NoError THEN Reply("KO", "ResponseNotSaved", andSave)
        ELSE [ db |-> stored.db, status |-> "OK", cause |-> "",
               redirect |-> << IF authorized THEN ExternalRootURL ELSE "",
                               AuthorizationPath, form.form >>,
               calls |-> andSave ]

oidcConsentPOST_RejectGrants(db, us, body, fail) ==
    LET got     == oidcConsentGetSessionsAndClient(db, us, fail)
        consent == got.consent
        form    == GetForm(consent)
        authorized == body.AcceptOrReject = "accept"
        accepted ==
            [ consent EXCEPT
                !.granted_scopes = consent.requested_scopes,
                !.granted_audience =
                    IF IsStringInSlice(consent.client_id, consent.requested_audience)
                    THEN consent.requested_audience
                    ELSE Append(consent.requested_audience, consent.client_id) ]
        stored  == SaveOAuth2ConsentSessionResponse(
                       db, accepted, authorized,
                       fail = "save")
        Reply(status, cause, calls) ==
            [ db |-> db, status |-> status, cause |-> cause, redirect |-> << >>,
              calls |-> calls ]
        andSave == Append(got.calls, "SaveOAuth2ConsentSessionResponse")
    IN  IF ~body.ok THEN Reply("KO", "BodyParse", << >>)
        ELSE IF got.ret THEN Reply("Forbidden", got.cause, got.calls)
        ELSE IF ~IsAuthenticationLevelSufficient(got.client, us.AuthenticationLevel)
        THEN Reply("Forbidden", "InsufficientAuthLevel", got.calls)
        ELSE IF consent.client_id # body.ClientID THEN Reply("KO", "ClientMismatch", got.calls)
        ELSE IF form.err # NoError THEN Reply("KO", "CorruptSession", got.calls)
        ELSE IF authorized /\ fail = "rooturl" THEN Reply("KO", "NoExternalRootURL", got.calls)
        ELSE IF body.AcceptOrReject \notin {"accept", "reject"}
        THEN Reply("BadRequest", "InvalidDecision", got.calls)
        ELSE IF stored.err # NoError THEN Reply("KO", "ResponseNotSaved", andSave)
        ELSE [ db |-> stored.db, status |-> "OK", cause |-> "",
               redirect |-> << IF authorized THEN ExternalRootURL ELSE "",
                               AuthorizationPath, form.form >>,
               calls |-> andSave ]

oidcConsentPOST_OtherVerbRejects(db, us, body, fail) ==
    LET got     == oidcConsentGetSessionsAndClient(db, us, fail)
        consent == got.consent
        form    == GetForm(consent)
        authorized == body.AcceptOrReject = "accept"
        accepted ==
            [ consent EXCEPT
                !.granted_scopes = consent.requested_scopes,
                !.granted_audience =
                    IF IsStringInSlice(consent.client_id, consent.requested_audience)
                    THEN consent.requested_audience
                    ELSE Append(consent.requested_audience, consent.client_id) ]
        stored  == SaveOAuth2ConsentSessionResponse(
                       db, IF authorized THEN accepted ELSE consent, authorized,
                       fail = "save")
        Reply(status, cause, calls) ==
            [ db |-> db, status |-> status, cause |-> cause, redirect |-> << >>,
              calls |-> calls ]
        andSave == Append(got.calls, "SaveOAuth2ConsentSessionResponse")
    IN  IF ~body.ok THEN Reply("KO", "BodyParse", << >>)
        ELSE IF got.ret THEN Reply("Forbidden", got.cause, got.calls)
        ELSE IF ~IsAuthenticationLevelSufficient(got.client, us.AuthenticationLevel)
        THEN Reply("Forbidden", "InsufficientAuthLevel", got.calls)
        ELSE IF consent.client_id # body.ClientID THEN Reply("KO", "ClientMismatch", got.calls)
        ELSE IF form.err # NoError THEN Reply("KO", "CorruptSession", got.calls)
        ELSE IF authorized /\ fail = "rooturl" THEN Reply("KO", "NoExternalRootURL", got.calls)
        ELSE IF stored.err # NoError THEN Reply("KO", "ResponseNotSaved", andSave)
        ELSE [ db |-> stored.db, status |-> "OK", cause |-> "",
               redirect |-> << IF authorized THEN ExternalRootURL ELSE "",
                               AuthorizationPath, form.form >>,
               calls |-> andSave ]

oidcConsentPOST_MismatchForbidden(db, us, body, fail) ==
    LET got     == oidcConsentGetSessionsAndClient(db, us, fail)
        consent == got.consent
        form    == GetForm(consent)
        authorized == body.AcceptOrReject = "accept"
        accepted ==
            [ consent EXCEPT
                !.granted_scopes = consent.requested_scopes,
                !.granted_audience =
                    IF IsStringInSlice(consent.client_id, consent.requested_audience)
                    THEN consent.requested_audience
                    ELSE Append(consent.requested_audience, consent.client_id) ]
        stored  == SaveOAuth2ConsentSessionResponse(
                       db, IF authorized THEN accepted ELSE consent, authorized,
                       fail = "save")
        Reply(status, cause, calls) ==
            [ db |-> db, status |-> status, cause |-> cause, redirect |-> << >>,
              calls |-> calls ]
        andSave == Append(got.calls, "SaveOAuth2ConsentSessionResponse")
    IN  IF ~body.ok THEN Reply("KO", "BodyParse", << >>)
        ELSE IF got.ret THEN Reply("Forbidden", got.cause, got.calls)
        ELSE IF ~IsAuthenticationLevelSufficient(got.client, us.AuthenticationLevel)
        THEN Reply("Forbidden", "InsufficientAuthLevel", got.calls)
        ELSE IF consent.client_id # body.ClientID THEN Reply("Forbidden", "ClientMismatch", got.calls)
        ELSE IF form.err # NoError THEN Reply("KO", "CorruptSession", got.calls)
        ELSE IF authorized /\ fail = "rooturl" THEN Reply("KO", "NoExternalRootURL", got.calls)
        ELSE IF body.AcceptOrReject \notin {"accept", "reject"}
        THEN Reply("BadRequest", "InvalidDecision", got.calls)
        ELSE IF stored.err # NoError THEN Reply("KO", "ResponseNotSaved", andSave)
        ELSE [ db |-> stored.db, status |-> "OK", cause |-> "",
               redirect |-> << IF authorized THEN ExternalRootURL ELSE "",
                               AuthorizationPath, form.form >>,
               calls |-> andSave ]

\* POST: the checks in the order of the handler, the first that fails
\* answering; on accept the granted scopes and audience are set on the loaded
\* session, the client ID appended to the audience unless it is in it; the
\* response is saved last.  "KO" is the JSON error "Operation failed".
\* Variant: the client ID of the body is compared before the authentication level.
oidcConsentPOST_MismatchBeforeLevel(db, us, body, fail) ==
    LET got     == oidcConsentGetSessionsAndClient(db, us, fail)
        consent == got.consent
        form    == GetForm(consent)
        authorized == body.AcceptOrReject = "accept"
        accepted ==
            [ consent EXCEPT
                !.granted_scopes = consent.requested_scopes,
                !.granted_audience =
                    IF IsStringInSlice(consent.client_id, consent.requested_audience)
                    THEN consent.requested_audience
                    ELSE Append(consent.requested_audience, consent.client_id) ]
        stored  == SaveOAuth2ConsentSessionResponse(
                       db, IF authorized THEN accepted ELSE consent, authorized,
                       fail = "save")
        Reply(status, cause, calls) ==
            [ db |-> db, status |-> status, cause |-> cause, redirect |-> << >>,
              calls |-> calls ]
        andSave == Append(got.calls, "SaveOAuth2ConsentSessionResponse")
    IN  IF ~body.ok THEN Reply("KO", "BodyParse", << >>)
        ELSE IF got.ret THEN Reply("Forbidden", got.cause, got.calls)
        ELSE IF consent.client_id # body.ClientID THEN Reply("KO", "ClientMismatch", got.calls)
        ELSE IF ~IsAuthenticationLevelSufficient(got.client, us.AuthenticationLevel)
        THEN Reply("Forbidden", "InsufficientAuthLevel", got.calls)
        ELSE IF form.err # NoError THEN Reply("KO", "CorruptSession", got.calls)
        ELSE IF authorized /\ fail = "rooturl" THEN Reply("KO", "NoExternalRootURL", got.calls)
        ELSE IF body.AcceptOrReject \notin {"accept", "reject"}
        THEN Reply("BadRequest", "InvalidDecision", got.calls)
        ELSE IF stored.err # NoError THEN Reply("KO", "ResponseNotSaved", andSave)
        ELSE [ db |-> stored.db, status |-> "OK", cause |-> "",
               redirect |-> << IF authorized THEN ExternalRootURL ELSE "",
                               AuthorizationPath, form.form >>,
               calls |-> andSave ]

oidcConsentPOST(db, us, body, fail) ==
    LET got     == oidcConsentGetSessionsAndClient(db, us, fail)
        consent == got.consent
        form    == GetForm(consent)
        authorized == body.AcceptOrReject = "accept"
        accepted ==
            [ consent EXCEPT
                !.granted_scopes = consent.requested_scopes,
                !.granted_audience =
                    IF IsStringInSlice(consent.client_id, consent.requested_audience)
                    THEN consent.requested_audience
                    ELSE Append(consent.requested_audience, consent.client_id) ]
        stored  == SaveOAuth2ConsentSessionResponse(
                       db, IF authorized THEN accepted ELSE consent, authorized,
                       fail = "save")
        Reply(status, cause, calls) ==
            [ db |-> db, status |-> status, cause |-> cause, redirect |-> << >>,
              calls |-> calls ]
        andSave == Append(got.calls, "SaveOAuth2ConsentSessionResponse")
    IN  IF ~body.ok THEN Reply("KO", "BodyParse", << >>)
        ELSE IF got.ret THEN Reply("Forbidden", got.cause, got.calls)
        ELSE IF ~IsAuthenticationLevelSufficient(got.client, us.AuthenticationLevel)
        THEN Reply("Forbidden", "InsufficientAuthLevel", got.calls)
        ELSE IF consent.client_id # body.ClientID THEN Reply("KO", "ClientMismatch", got.calls)
        ELSE IF form.err # NoError THEN Reply("KO", "CorruptSession", got.calls)
        ELSE IF authorized /\ fail = "rooturl" THEN Reply("KO", "NoExternalRootURL", got.calls)
        ELSE IF body.AcceptOrReject \notin {"accept", "reject"}
        THEN Reply("BadRequest", "InvalidDecision", got.calls)
        ELSE IF stored.err # NoError THEN Reply("KO", "ResponseNotSaved", andSave)
        ELSE [ db |-> stored.db, status |-> "OK", cause |-> "",
               redirect |-> << IF authorized THEN ExternalRootURL ELSE "",
                               AuthorizationPath, form.form >>,
               calls |-> andSave ]

NoBody == [ok |-> FALSE, ClientID |-> "", AcceptOrReject |-> ""]

\* A registry or consent call was answered, leaving the consent table db; a
\* POST is marked when the call before it was the GET that presented the same
\* challenge.
ReturnConsent(op, id, body, fail, status, cause, redirect, calls, policy, valid, db) ==
    /\ consents' = db
    /\ clast' = [ op |-> op, id |-> id,
                  challenge |-> userSession.ConsentChallengeID,
                  body |-> body, fail |-> fail, status |-> status,
                  cause |-> cause, redirect |-> redirect, calls |-> calls,
                  policy |-> policy, valid |-> valid,
                  presented |-> ( /\ op = "oidcConsentPOST"
                                  /\ clast.op = "oidcConsent"
                                  /\ clast.status = "OK"
                                  /\ clast.challenge = userSession.ConsentChallengeID ) ]
    /\ UNCHANGED <<userSession, sessionVars, jtiVars, subjectVars, raceVars, corsVars>>

CallGetClientPolicy ==
    \E id \in ClientIDs :
        ReturnConsent("GetClientPolicy", id, NoBody, "none", "", "", << >>, << >>,
                      GetClientPolicy(id), FALSE, consents)

CallIsValidClientID ==
    \E id \in ClientIDs :
        ReturnConsent("IsValidClientID", id, NoBody, "none", "", "", << >>, << >>,
                      TwoFactor, IsValidClientID(id), consents)

CallOidcConsent_MarksResponded ==
    \E fail \in {"none", "load"} :
        LET res == oidcConsent(consents, userSession, fail)
        IN  ReturnConsent("oidcConsent", "", NoBody, fail, res.status, res.cause,
                          << >>, res.calls, TwoFactor, FALSE,
                          IF res.status = "OK"
                          THEN [consents EXCEPT
                                  ![userSession.ConsentChallengeID].responded = TRUE]
                          ELSE consents)

CallOidcConsent ==
    \E fail \in {"none", "load"} :
        LET res == oidcConsent(consents, userSession, fail)
        IN  ReturnConsent("oidcConsent", "", NoBody, fail, res.status, res.cause,
                          << >>, res.calls, TwoFactor, FALSE, consents)

\* Variant: a persisted reject clears the pending challenge of the user session.
CallOidcConsentPOST_ClearsChallenge ==
    \E body \in ConsentPostRequestBodies, fail \in ConsentFailures :
        LET res == oidcConsentPOST(consents, userSession, body, fail)
        IN  /\ consents' = res.db
            /\ clast' = [ op |-> "oidcConsentPOST", id |-> "",
                          challenge |-> userSession.ConsentChallengeID,
                          body |-> body, fail |-> fail, status |-> res.status,
                          cause |-> res.cause, redirect |-> res.redirect,
                          calls |-> res.calls, policy |-> TwoFactor, valid |-> FALSE,
                          presented |-> ( /\ clast.op = "oidcConsent"
                                          /\ clast.status = "OK"
                                          /\ clast.challenge = userSession.ConsentChallengeID ) ]
            /\ userSession' =
                 IF res.status = "OK" /\ body.AcceptOrReject = "reject"
                 THEN [userSession EXCEPT !.ConsentChallengeID = ""]
                 ELSE userSession
            /\ UNCHANGED <<sessionVars, jtiVars, subjectVars, raceVars, corsVars>>

CallOidcConsentPOST ==
    \E body \in ConsentPostRequestBodies, fail \in ConsentFailures :
        LET res == oidcConsentPOST(consents, userSession, body, fail)
        IN  ReturnConsent("oidcConsentPOST", "", body, fail, res.status, res.cause,
                          res.redirect, res.calls, TwoFactor, FALSE, res.db)

\* The authorization endpoint opens a consent session under a new challenge
\* ID (the IDs are taken in order) and points the user session at it.
NewConsentChallenge ==
    \E challengeID \in Challenges \ DOMAIN consents, r \in ConsentRequests :
        /\ challengeID = "challenge2" => "challenge1" \in DOMAIN consents
        /\ consents' =
             [ k \in DOMAIN consents \cup {challengeID} |->
                 IF k = challengeID
                 THEN [ NilConsent EXCEPT
                          !.challenge_id = challengeID,
                          !.client_id = r.client_id,
                          !.requested_scopes = r.requested_scopes,
                          !.requested_audience = r.requested_audience,
                          !.form = r.form ]
                 ELSE consents[k] ]
        /\ userSession' = [userSession EXCEPT !.ConsentChallengeID = challengeID]
        /\ UNCHANGED <<clast, sessionVars, jtiVars, subjectVars, raceVars, corsVars>>

\* The user's authentication level changes between two requests.
Authenticate ==
    \E level \in {NotAuthenticated, OneFactor, TwoFactor} \ {userSession.AuthenticationLevel} :
        /\ userSession' = [userSession EXCEPT !.AuthenticationLevel = level]
        /\ UNCHANGED <<consents, clast, sessionVars, jtiVars, subjectVars, raceVars, corsVars>>

NextConsent ==
    \/ CallGetClientPolicy
    \/ CallIsValidClientID
    \/ CallOidcConsent
    \/ CallOidcConsentPOST
    \/ NewConsentChallenge
    \/ Authenticate

SpecConsent == Init /\ [][NextConsent]_vars

\* C17: GetClientPolicy returns the policy of the registered client and
\* two-factor, the strictest level, for every ID that resolves to no client;
\* IsValidClientID is true exactly when GetClient returns no error.
C17_PolicyDefaultsToTwoFactor ==
    /\ clast.op = "GetClientPolicy" =>
          /\ clast.id \in clients => clast.policy = ClientPolicy[clast.id]
          /\ clast.id \notin clients => clast.policy = TwoFactor
          /\ clast.policy <= TwoFactor
    /\ clast.op = "IsValidClientID" =>
          (clast.valid <=> GetClient(clast.id).err = NoError)
    /\ \A id \in ClientIDs :
          /\ IsValidClientID(id) <=> GetClient(id).err = NoError
          /\ IsValidClientID(id) <=> id \in clients

\* The policy of an unregistered client ID was asked for and came back
\* two-factor, while a registered client has the one-factor policy.
C17_Witness ==
    /\ clast.op = "GetClientPolicy"
    /\ clast.id = "app3"
    /\ ~IsValidClientID(clast.id)
    /\ clast.policy = TwoFactor
    /\ GetClientPolicy("app1") = OneFactor

\* The step is the handler op answering a request: the user session and the
\* set of consent sessions are as before.
HandlerStep(op) ==
    /\ clast'.op = op
    /\ userSession' = userSession
    /\ DOMAIN consents' = DOMAIN consents

\* The consent session the user session points at, before the step.
PendingConsent == consents[userSession.ConsentChallengeID]

HasConsent == userSession.ConsentChallengeID \in DOMAIN consents

C18_Step ==
    ( /\ HandlerStep("oidcConsentPOST")
      /\ clast'.status = "OK"
      /\ clast'.body.AcceptOrReject = "accept" )
    => /\ HasConsent
       /\ LET before == PendingConsent
              after  == consents'[userSession.ConsentChallengeID]
          IN  /\ after.responded /\ after.authorized
              /\ after.granted_scopes = before.requested_scopes
              /\ after.granted_audience =
                    IF \E i \in 1 .. Len(before.requested_audience) :
                          before.requested_audience[i] = before.client_id
                    THEN before.requested_audience
                    ELSE before.requested_audience \o <<before.client_id>>
              /\ Cardinality({ i \in 1 .. Len(after.granted_audience) :
                                 after.granted_audience[i] = before.client_id }) = 1

\* C18: a decision with the verb accept that passes every check leaves the
\* consent session persisted as granted, its granted scopes the requested
\* scopes and its granted audience the requested audience with the client ID
\* of the session added at the end unless it was there already, so that the
\* client ID is in it exactly once.
C18_AcceptGrantsRequested == [][C18_Step]_vars

\* Scopes {openid, profile} and audience {api} were requested by app1 and
\* accepted: the granted audience is {api, app1}.
C18_Witness ==
    /\ clast.op = "oidcConsentPOST"
    /\ clast.status = "OK"
    /\ clast.body.AcceptOrReject = "accept"
    /\ clast.challenge \in DOMAIN consents
    /\ LET row == consents[clast.challenge]
       IN  /\ row.client_id = "app1"
           /\ row.responded /\ row.authorized
           /\ row.requested_audience = <<"api">>
           /\ row.granted_scopes = <<"openid", "profile">>
           /\ row.granted_audience = <<"api", "app1">>

C19_Step ==
    ( /\ HandlerStep("oidcConsentPOST")
      /\ clast'.body.ok
      /\ HasConsent
      /\ PendingConsent.client_id # clast'.body.ClientID )
    => /\ consents' = consents
       /\ clast'.status # "OK"
       /\ ( /\ clast'.fail # "load"
            /\ IsValidClientID(PendingConsent.client_id)
            /\ userSession.AuthenticationLevel
                 >= GetClientPolicy(PendingConsent.client_id) )
          => (clast'.status = "KO" /\ clast'.cause = "ClientMismatch")

\* C19: a decision whose body names a client ID other than the one of the
\* consent session changes nothing in the consent table, whatever the verb,
\* and is not answered OK; when the session, its client and the
\* authentication level were resolved, which the handler does first, it is
\* answered with the operation-failed error for the client mismatch.
C19_ClientMismatchNoMutation == [][C19_Step]_vars

\* An accept for app2 was posted against a pending consent session of app1 by
\* a sufficiently authenticated user and failed; the session is still pending.
C19_Witness ==
    /\ clast.op = "oidcConsentPOST"
    /\ clast.cause = "ClientMismatch"
    /\ clast.status = "KO"
    /\ clast.body.AcceptOrReject = "accept"
    /\ clast.body.ClientID = "app2"
    /\ clast.challenge \in DOMAIN consents
    /\ consents[clast.challenge].client_id = "app1"
    /\ ~consents[clast.challenge].responded
    /\ consents[clast.challenge].granted_audience = << >>

C20_Step ==
    ( /\ HandlerStep("oidcConsent") \/ (HandlerStep("oidcConsentPOST") /\ clast'.body.ok)
      /\ HasConsent
      /\ userSession.AuthenticationLevel < GetClientPolicy(PendingConsent.client_id) )
    => /\ consents' = consents
       /\ clast'.status = "Forbidden"
       /\ (clast'.fail # "load" /\ IsValidClientID(PendingConsent.client_id))
             => clast'.cause = "InsufficientAuthLevel"

\* C20: when the authentication level of the user session is below the
\* policy level of the consent session's client, the GET and the POST (with a
\* body that parses) are both answered Forbidden, for the insufficient level
\* when session and client were resolved, and the consent table is unchanged;
\* the POST looks at the level of the user session at the time of the POST.
C20_InsufficientLevelForbidden == [][C20_Step]_vars

\* The consent was presented, the authentication level dropped, and the
\* accept posted next was answered Forbidden, leaving the session pending.
C20_Witness ==
    /\ clast.op = "oidcConsentPOST"
    /\ clast.presented
    /\ clast.body.AcceptOrReject = "accept"
    /\ clast.status = "Forbidden"
    /\ clast.cause = "InsufficientAuthLevel"
    /\ clast.challenge \in DOMAIN consents
    /\ clast.body.ClientID = consents[clast.challenge].client_id
    /\ ~consents[clast.challenge].responded

C21_Step ==
    ( /\ HandlerStep("oidcConsentPOST")
      /\ clast'.body.ok
      /\ HasConsent
      /\ PendingConsent.responded )
    => /\ consents' = consents
       /\ clast'.status # "OK"

\* C21: a consent session is decided at most once: a decision posted for a
\* session that was already responded to (granted or denied) is not answered
\* OK and leaves the persisted outcome, the granted scopes and the granted
\* audience as they were.
C21_DecidedOnce == [][C21_Step]_vars

\* C30: every consent session persisted as denied (responded to, not
\* authorized) has no granted scopes and no granted audience, also when the
\* reject came after an accept of the same challenge.
C30_DeniedGrantsNothing ==
    \A challengeID \in DOMAIN consents :
        (consents[challengeID].responded /\ ~consents[challengeID].authorized)
        => /\ consents[challengeID].granted_scopes = << >>
           /\ consents[challengeID].granted_audience = << >>

C22_Step ==
    ( /\ HandlerStep("oidcConsentPOST")
      /\ clast'.status = "OK"
      /\ clast'.body.AcceptOrReject = "reject" )
    => /\ HasConsent
       /\ LET before == PendingConsent
              after  == consents'[userSession.ConsentChallengeID]
          IN  /\ after.responded /\ ~after.authorized
              /\ after.requested_scopes = before.requested_scopes
              /\ after.requested_audience = before.requested_audience
              /\ after.granted_scopes = before.granted_scopes
              /\ after.granted_audience = before.granted_audience
       /\ \A k \in DOMAIN consents :
             k # userSession.ConsentChallengeID => consents'[k] = consents[k]

\* C22: a decision with the verb reject that passes every check leaves the
\* consent session persisted as denied, with its requested scopes, requested
\* audience, granted scopes and granted audience exactly as before the call;
\* no other consent session is touched.
C22_RejectKeepsScopes == [][C22_Step]_vars

\* A pending consent session of app1 was rejected: it is denied, nothing is
\* granted and what was requested is still there.
C22_Witness ==
    /\ clast.op = "oidcConsentPOST"
    /\ clast.status = "OK"
    /\ clast.body.AcceptOrReject = "reject"
    /\ clast.challenge \in DOMAIN consents
    /\ LET row == consents[clast.challenge]
       IN  /\ row.responded /\ ~row.authorized
           /\ row.requested_scopes = <<"openid", "profile">>
           /\ row.requested_audience = <<"api">>
           /\ row.granted_scopes = << >>
           /\ row.granted_audience = << >>

\* The checks of the POST that come before the verb is looked at all pass:
\* the session loads, its client is registered, the level suffices, the body
\* names the session's client and the stored form parses.
ChecksBeforeVerbPass ==
    /\ clast'.body.ok
    /\ HasConsent
    /\ clast'.fail # "load"
    /\ IsValidClientID(PendingConsent.client_id)
    /\ userSession.AuthenticationLevel >= GetClientPolicy(PendingConsent.client_id)
    /\ PendingConsent.client_id = clast'.body.ClientID
    /\ GetForm(PendingConsent).err = NoError

C23_Step ==
    ( /\ HandlerStep("oidcConsentPOST")
      /\ clast'.body.ok
      /\ clast'.body.AcceptOrReject \notin {"accept", "reject"} )
    => /\ consents' = consents
       /\ clast'.status # "OK"
       /\ ChecksBeforeVerbPass
             => (clast'.status = "BadRequest" /\ clast'.cause = "InvalidDecision")

\* C23: a decision with a verb other than accept and reject changes nothing
\* in the consent table and is not answered OK; when the checks the handler
\* makes before it looks at the verb passed, it is answered Bad Request for
\* the invalid decision.
C23_InvalidDecisionBadRequest == [][C23_Step]_vars

\* The verb "maybe" was posted by a sufficiently authenticated user for the
\* pending session's own client and was answered Bad Request; the session is
\* still pending.
C23_Witness ==
    /\ clast.op = "oidcConsentPOST"
    /\ clast.body.AcceptOrReject = "maybe"
    /\ clast.status = "BadRequest"
    /\ clast.cause = "InvalidDecision"
    /\ clast.challenge \in DOMAIN consents
    /\ clast.body.ClientID = consents[clast.challenge].client_id
    /\ ~consents[clast.challenge].responded

C24_Step ==
    ( HandlerStep("oidcConsent") \/ HandlerStep("oidcConsentPOST") )
    => /\ userSession.ConsentChallengeID = ""
          => /\ consents' = consents
             /\ clast'.status # "OK"
             /\ (clast'.op = "oidcConsent" \/ clast'.body.ok)
                   => (clast'.status = "Forbidden" /\ clast'.cause = "NoChallenge")
       /\ ( /\ userSession.ConsentChallengeID # ""
            /\ \/ ~HasConsent
               \/ clast'.fail = "load"
               \/ ~IsValidClientID(PendingConsent.client_id) )
          => /\ consents' = consents
             /\ clast'.status # "OK"
             /\ (clast'.op = "oidcConsent" \/ clast'.body.ok)
                   => /\ clast'.status = "Forbidden"
                      /\ clast'.cause =
                            IF ~HasConsent \/ clast'.fail = "load"
                            THEN "ConsentNotLoaded" ELSE "ClientNotFound"

\* C24: with no challenge ID in the user session the GET and the POST (with
\* a body that parses) are answered Forbidden for the missing challenge,
\* whether or not the consent-session load would have worked, and nothing is
\* persisted; with a challenge ID whose consent session does not load or
\* whose client is not registered they are answered Forbidden as well, and
\* nothing is persisted.
C24_NoChallengeForbidden == [][C24_Step]_vars

\* A decision was posted with no challenge in the user session while the
\* consent-session load was failing: the answer names the missing challenge.
C24_Witness ==
    /\ clast.op = "oidcConsentPOST"
    /\ clast.body.ok
    /\ clast.challenge = ""
    /\ clast.fail = "load"
    /\ clast.status = "Forbidden"
    /\ clast.cause = "NoChallenge"
    /\ consents = << >>

C25_Step ==
    ( /\ clast'.op = "oidcConsent"
      /\ clast' # clast \/ HandlerStep("oidcConsent") )
    => /\ consents' = consents
       /\ userSession' = userSession
       /\ sessions' = sessions
       /\ blacklist' = blacklist
       /\ opaque' = opaque

\* C25: the GET changes nothing: whatever it answers, the consent sessions,
\* the token and session tables and the user session are after the call what
\* they were before it.
C25_PresentChangesNothing == [][C25_Step]_vars

\* A pending consent session was presented: it is still pending and the user
\* session still points at it.
C25_Witness ==
    /\ clast.op = "oidcConsent"
    /\ clast.status = "OK"
    /\ userSession.ConsentChallengeID = clast.challenge
    /\ clast.challenge \in DOMAIN consents
    /\ ~consents[clast.challenge].responded
    /\ consents[clast.challenge].granted_scopes = << >>

\* The place of the first call of a provider method in a sequence of calls,
\* 0 when it is not called.
FirstCall(calls, method) ==
    IF \E i \in 1 .. Len(calls) : calls[i] = method
    THEN CHOOSE i \in 1 .. Len(calls) :
            /\ calls[i] = method
            /\ \A j \in 1 .. (i - 1) : calls[j] # method
    ELSE 0

\* C26: a POST that calls the consent-response save has called BeginTX
\* before it, calls Commit after it when the save succeeded and never
\* otherwise, and calls Rollback after it when the save failed.
C26_DecisionInTransaction ==
    ( /\ clast.op = "oidcConsentPOST"
      /\ FirstCall(clast.calls, "SaveOAuth2ConsentSessionResponse") > 0 )
    => LET save == FirstCall(clast.calls, "SaveOAuth2ConsentSessionResponse")
           begin == FirstCall(clast.calls, "BeginTX")
           commit == FirstCall(clast.calls, "Commit")
           rollback == FirstCall(clast.calls, "Rollback")
       IN  /\ 0 < begin /\ begin < save
           /\ IF clast.status = "OK"
              THEN save < commit /\ rollback = 0
              ELSE save < rollback /\ commit = 0

\* C27: every POST answered OK, for accept and for reject, returns as its
\* redirect target the external root URL, then the authorization path, then
\* the encoded form of the request stored in the consent session.
C27_RedirectToAuthorization ==
    ( /\ clast.op = "oidcConsentPOST"
      /\ clast.status = "OK" )
    => /\ clast.challenge \in DOMAIN consents
       /\ clast.redirect = << ExternalRootURL, AuthorizationPath,
                              GetForm(consents[clast.challenge]).form >>

\* The errors of the POST that are the caller's input: the client ID of the
\* body, and the verb.
CallerInputErrors == {"ClientMismatch", "InvalidDecision"}

C28_SameStep ==
    ( /\ clast.op = "oidcConsentPOST" /\ clast.cause \in CallerInputErrors
      /\ clast'.op = "oidcConsentPOST" /\ clast'.cause \in CallerInputErrors )
    => /\ clast'.status = clast.status
       /\ clast'.redirect = clast.redirect

\* C28 as stated: two POSTs that each fail on a caller-input error (client
\* mismatch, invalid decision) get the same response, whichever of the two
\* errors each ran into and whatever the identities involved.
C28_CallerErrorsSameResponse == [][C28_SameStep]_vars

C28_Step ==
    ( clast'.op = "oidcConsentPOST" /\ clast'.cause \in CallerInputErrors )
    => /\ clast'.redirect = << >>
       /\ clast'.status = IF clast'.cause = "ClientMismatch" THEN "KO" ELSE "BadRequest"
       /\ (clast.op = "oidcConsentPOST" /\ clast.cause = clast'.cause)
             => (clast'.status = clast.status /\ clast'.redirect = clast.redirect)

\* C28 amended: each caller-input error has one response of its own, which
\* names no user, client or challenge: a client mismatch is answered with
\* the operation-failed error, an invalid decision with Bad Request, neither
\* with a redirect; two POSTs that fail on the same one of the two errors
\* get the same response whatever the identities involved.
C28_CallerErrorsGenericResponse == [][C28_Step]_vars

\* An invalid verb was answered Bad Request where, for the same session and
\* user, the other client's ID in the body is answered operation failed.
C28_Witness ==
    /\ clast.op = "oidcConsentPOST"
    /\ clast.cause = "InvalidDecision"
    /\ clast.status = "BadRequest"
    /\ clast.redirect = << >>
    /\ userSession.ConsentChallengeID = clast.challenge
    /\ \E other \in clients \ {clast.body.ClientID} :
          LET res == oidcConsentPOST(consents, userSession,
                                     [clast.body EXCEPT !.ClientID = other], "none")
          IN  res.cause = "ClientMismatch" /\ res.status = "KO"

(***************************************************************************)
(* Concurrent store calls on different keys                                *)
(***************************************************************************)

\* Races run one after the other on the same table.
MaxRounds == 2

\* The signature and the request each task calls the store with: the tasks
\* share no signature and no request ID.
RaceKeys ==
    [ task1 |-> [ sig |-> "sigA",
                  request |-> [ id |-> "req1", client |-> "app1",
                                subject |-> "john", form |-> "scope=openid" ] ],
      task2 |-> [ sig |-> "sigB",
                  request |-> [ id |-> "req2", client |-> "app1",
                                subject |-> "john", form |-> "scope=profile" ] ] ]

RaceOps ==
    CreateOps \cup GetOps \cup DeleteOps \cup RevokeAccessOps \cup RevokeRefreshOps
        \cup {"InvalidateAuthorizeCodeSession"}

\* The store method named op, called for a signature and a request: the table
\* it leaves and what it returns.
StoreCall(db, op, sig, request) ==
    LET Wrote(res) == [db |-> res.db, r |-> NilRequest, err |-> res.err]
        Read(res)  == [db |-> db, r |-> res.r, err |-> res.err]
    IN  CASE op = "CreateAuthorizeCodeSession" ->
               Wrote(CreateAuthorizeCodeSession(db, sig, request))
          [] op = "InvalidateAuthorizeCodeSession" ->
               Wrote(InvalidateAuthorizeCodeSession(db, sig))
          [] op = "GetAuthorizeCodeSession" ->
               Read(GetAuthorizeCodeSession(db, sig, FALSE))
          [] op = "CreateAccessTokenSession" ->
               Wrote(CreateAccessTokenSession(db, sig, request))
          [] op = "DeleteAccessTokenSession" ->
               Wrote(DeleteAccessTokenSession(db, sig))
          [] op = "RevokeAccessToken" ->
               Wrote(RevokeAccessToken(db, request.id))
          [] op = "GetAccessTokenSession" ->
               Read(GetAccessTokenSession(db, sig, FALSE))
          [] op = "CreateRefreshTokenSession" ->
               Wrote(CreateRefreshTokenSession(db, sig, request))
          [] op = "DeleteRefreshTokenSession" ->
               Wrote(DeleteRefreshTokenSession(db, sig))
          [] op = "RevokeRefreshToken" ->
               Wrote(RevokeRefreshToken(db, request.id))
          [] op = "RevokeRefreshTokenMaybeGracePeriod" ->
               Wrote(RevokeRefreshTokenMaybeGracePeriod(db, request.id, sig))
          [] op = "GetRefreshTokenSession" ->
               Read(GetRefreshTokenSession(db, sig, FALSE))
          [] op = "CreatePKCERequestSession" ->
               Wrote(CreatePKCERequestSession(db, sig, request))
          [] op = "DeletePKCERequestSession" ->
               Wrote(DeletePKCERequestSession(db, sig))
          [] op = "GetPKCERequestSession" ->
               Read(GetPKCERequestSession(db, sig, FALSE))
          [] op = "CreateOpenIDConnectSession" ->
               Wrote(CreateOpenIDConnectSession(db, sig, request))
          [] op = "DeleteOpenIDConnectSession" ->
               Wrote(DeleteOpenIDConnectSession(db, sig))
          [] op = "GetOpenIDConnectSession" ->
               Read(GetOpenIDConnectSession(db, sig, FALSE))

\* Two requests arrive: each task calls one store method with its own key.
CallStoreConcurrently ==
    /\ rounds < MaxRounds
    /\ \A p \in Tasks : racers[p].state # "called"
    /\ \E a \in RaceOps, b \in RaceOps :
         racers' = [ p \in Tasks |->
                       [ state |-> "called",
                         op    |-> IF p = "task1" THEN a ELSE b,
                         sig   |-> RaceKeys[p].sig,
                         req   |-> RaceKeys[p].request,
                         r     |-> NilRequest,
                         err   |-> NoError ] ]
    /\ started' = sessions
    /\ rounds' = rounds + 1
    /\ UNCHANGED authn
    /\ UNCHANGED <<sessions, last, nops, saved, consumed, deleted, family>>
    /\ UNCHANGED <<jtiVars, subjectVars, consentVars, corsVars>>

\* The storage step of task p's call: every store method makes one provider
\* call, after which it returns.
StorageStep(p) ==
    /\ racers[p].state = "called"
    /\ LET res == StoreCall(sessions, racers[p].op, racers[p].sig, racers[p].req)
       IN  /\ sessions' = res.db
           /\ racers' = [racers EXCEPT ![p] = [ @ EXCEPT !.state = "returned",
                                                         !.r = res.r,
                                                         !.err = res.err ]]
    /\ UNCHANGED <<started, rounds, authn>>
    /\ UNCHANGED <<last, nops, saved, consumed, deleted, family>>
    /\ UNCHANGED <<jtiVars, subjectVars, consentVars, corsVars>>

NextIndependent ==
    \/ CallStoreConcurrently
    \/ \E p \in Tasks : StorageStep(p)

SpecIndependent == Init /\ [][NextIndependent]_vars

\* The table and the two results of running task p's call and then task q's,
\* one after the other, on the table the race started from.
OneAfterTheOther(p, q) ==
    LET first  == StoreCall(started, racers[p].op, racers[p].sig, racers[p].req)
        second == StoreCall(first.db, racers[q].op, racers[q].sig, racers[q].req)
    IN  [ db  |-> second.db,
          res |-> [ t \in {p, q} |->
                      IF t = p THEN [r |-> first.r, err |-> first.err]
                               ELSE [r |-> second.r, err |-> second.err] ] ]

\* What the race left: the table and what each task's call returned.
Raced ==
    [ db  |-> sessions,
      res |-> [ t \in Tasks |-> [r |-> racers[t].r, err |-> racers[t].err] ] ]

\* C29: when two store calls on different keys (different signatures, different
\* request IDs) have both returned, in whichever order their storage steps ran,
\* the table and both results are those of running the first task's call and
\* then the second's, and those of running the second's and then the first's.
C29_DifferentKeysIndependent ==
    (\A p \in Tasks : racers[p].state = "returned") =>
        /\ Raced = OneAfterTheOther("task1", "task2")
        /\ Raced = OneAfterTheOther("task2", "task1")

\* A signature delete and a read of the same session type under the other
\* signature have both returned, on a table where the row read exists and
\* the write changed a row.
C29_Witness ==
    /\ \A p \in Tasks : racers[p].state = "returned"
    /\ racers["task1"].op = "DeleteAccessTokenSession"
    /\ racers["task2"].op = "GetAccessTokenSession"
    /\ racers["task2"].err = NoError
    /\ racers["task2"].r = RaceKeys["task2"].request
    /\ sessions # started

\* Every consent session persisted as granted carries the requested scopes as
\* granted scopes, its client ID in the granted audience, and nothing in the
\* granted audience besides the client ID and the requested audience.
C31_Granted ==
    \A challengeID \in DOMAIN consents :
        LET row == consents[challengeID]
        IN  (row.responded /\ row.authorized)
            => /\ row.granted_scopes = row.requested_scopes
               /\ IsStringInSlice(row.client_id, row.granted_audience)
               /\ \A i \in 1 .. Len(row.granted_audience) :
                     \/ row.granted_audience[i] = row.client_id
                     \/ IsStringInSlice(row.granted_audience[i], row.requested_audience)

\* A GET or POST of the consent handlers leaves the requested scopes and the
\* requested audience of every consent session as they were.
C31_Step ==
    (HandlerStep("oidcConsent") \/ HandlerStep("oidcConsentPOST"))
    => \A challengeID \in DOMAIN consents :
          /\ consents'[challengeID].requested_scopes =
                consents[challengeID].requested_scopes
          /\ consents'[challengeID].requested_audience =
                consents[challengeID].requested_audience

\* C31: in every reachable state a consent session persisted as granted has
\* granted scopes equal to its requested scopes and a granted audience that
\* holds its client ID and otherwise only members of its requested audience;
\* no GET and no POST of the consent handlers changes requested scopes or
\* requested audience.
C31_GrantedIsAllRequested == []C31_Granted /\ [][C31_Step]_vars

\* Two sessions are persisted as granted, the second one accepted last: app1's with
\* the client ID added to the requested audience {api}, and app2's whose
\* requested audience {api, app2} held the client ID already.
C31_Witness ==
    /\ clast.op = "oidcConsentPOST"
    /\ clast.status = "OK"
    /\ clast.challenge = "challenge2"
    /\ DOMAIN consents = Challenges
    /\ \A challengeID \in Challenges :
          consents[challengeID].responded /\ consents[challengeID].authorized
    /\ \E a \in Challenges, b \in Challenges :
          /\ consents[a].client_id = "app1"
          /\ consents[a].granted_audience = <<"api", "app1">>
          /\ consents[b].client_id = "app2"
          /\ consents[b].granted_audience = consents[b].requested_audience

\* The first check of the POST handler that fails on the request, in the
\* order the handler makes them, read off the request and the state it
\* arrives in; "" when none fails.
C32_FirstFailingCheck(body, fail) ==
    IF ~body.ok THEN "BodyParse"
    ELSE IF userSession.ConsentChallengeID = "" THEN "NoChallenge"
    ELSE IF fail = "load" \/ ~HasConsent THEN "ConsentNotLoaded"
    ELSE IF PendingConsent.client_id \notin clients THEN "ClientNotFound"
    ELSE IF userSession.AuthenticationLevel < ClientPolicy[PendingConsent.client_id]
    THEN "InsufficientAuthLevel"
    ELSE IF PendingConsent.client_id # body.ClientID THEN "ClientMismatch"
    ELSE IF PendingConsent.form = "%" THEN "CorruptSession"
    ELSE IF body.AcceptOrReject \notin {"accept", "reject"} THEN "InvalidDecision"
    ELSE ""

\* How often the consent-response save is among the provider calls.
C32_Saves(calls) ==
    Cardinality({ i \in 1 .. Len(calls) : calls[i] = "SaveOAuth2ConsentSessionResponse" })

C32_Step ==
    HandlerStep("oidcConsentPOST")
    => LET failing == C32_FirstFailingCheck(clast'.body, clast'.fail)
       IN  /\ C32_Saves(clast'.calls) <= 1
           /\ failing # "" =>
                 /\ clast'.cause = failing
                 /\ clast'.status # "OK"
                 /\ C32_Saves(clast'.calls) = 0
                 /\ consents' = consents
           /\ failing = "InsufficientAuthLevel" => clast'.status = "Forbidden"
           /\ failing = "" =>
                 clast'.cause \in {"", "NoExternalRootURL", "ResponseNotSaved"}
           /\ clast'.status = "OK" => C32_Saves(clast'.calls) = 1

\* C32: a POST of the consent handler is answered by the first check that
\* fails, in the order body parse, challenge present, consent session loaded,
\* client resolved, authentication level, client-ID match, stored form parse,
\* verb; the consent-response save is called at most once, and not at all
\* when a check fails, so that a request with an insufficient level and a
\* mismatched client ID is answered Forbidden.
C32_FirstFailingCheckDecides == [][C32_Step]_vars

\* A POST naming another client than the session's, by a user whose level is
\* below the client's policy, was answered Forbidden without a save.
C32_Witness ==
    /\ clast.op = "oidcConsentPOST"
    /\ clast.body.ok
    /\ HasConsent
    /\ clast.challenge = userSession.ConsentChallengeID
    /\ PendingConsent.client_id \in clients
    /\ PendingConsent.client_id # clast.body.ClientID
    /\ userSession.AuthenticationLevel < ClientPolicy[PendingConsent.client_id]
    /\ clast.status = "Forbidden"
    /\ clast.cause = "InsufficientAuthLevel"
    /\ C32_Saves(clast.calls) = 0

\* The step is a reply of the POST handler (only replies write clast).
C35_Step ==
    (clast' # clast /\ clast'.op = "oidcConsentPOST") =>
        /\ userSession' = userSession
        /\ clast'.challenge = userSession'.ConsentChallengeID
        /\ clast'.status = "OK" =>
              /\ userSession'.ConsentChallengeID \in DOMAIN consents'
              /\ consents'[userSession'.ConsentChallengeID].responded

\* C35: a POST of the consent handler leaves the user session as it was, for
\* accept, for reject and for every failure: the pending challenge it
\* references and its authentication level are the same after the reply, and
\* after a decision it still references the challenge that was decided.
C35_DecideKeepsUserSession == [][C35_Step]_vars

\* A reject was persisted and the user session still points at the decided
\* challenge, at the level the decision was made with.
C35_Witness ==
    /\ clast.op = "oidcConsentPOST"
    /\ clast.status = "OK"
    /\ clast.body.AcceptOrReject = "reject"
    /\ userSession.ConsentChallengeID = clast.challenge
    /\ userSession.AuthenticationLevel = TwoFactor
    /\ consents[userSession.ConsentChallengeID].responded
    /\ ~consents[userSession.ConsentChallengeID].authorized

(***************************************************************************)
(* Concurrent client-assertion authentications                             *)
(***************************************************************************)

\* Task p authenticates a client assertion (jti, exp) that has not expired:
\* the check of the JTI is its first storage step.
CheckAssertion(p) ==
    /\ authn[p].state = "idle"
    /\ \E jti \in JTIs, exp \in Times, storage \in StorageModes :
         /\ After(exp, now)
         /\ LET res == IsJWTUsed(blacklist, now, jti, storage)
            IN  authn' = [authn EXCEPT ![p] =
                            [ state |-> IF res.used THEN "rejected" ELSE "checked",
                              jti |-> jti, exp |-> exp, at |-> now, err |-> res.err ]]
    /\ UNCHANGED <<racers, started, rounds>>
    /\ UNCHANGED <<jtiVars, sessionVars, subjectVars, consentVars, corsVars>>

\* Task p, its check passed, marks the JTI used until the assertion expires:
\* its second storage step.
MarkAssertion(p) ==
    /\ authn[p].state = "checked"
    /\ LET res == MarkJWTUsedForTime(blacklist, authn[p].jti, authn[p].exp)
       IN  /\ blacklist' = res.db
           /\ authn' = [authn EXCEPT ![p] =
                          [ @ EXCEPT !.state = IF res.err = NoError
                                               THEN "accepted" ELSE "rejected",
                                     !.at = now,
                                     !.err = res.err ]]
    /\ UNCHANGED <<racers, started, rounds>>
    /\ UNCHANGED <<now, jlast, marked, sessionVars, subjectVars, consentVars, corsVars>>

NextReplay ==
    \/ \E p \in Tasks : CheckAssertion(p)
    \/ \E p \in Tasks : MarkAssertion(p)
    \/ Tick

SpecReplay == Init /\ [][NextReplay]_vars

\* C33: two authentications of the same client assertion (one JTI, one
\* expiry), each running the check and then the mark while the assertion is
\* valid, never both complete the two steps without an error.
C33_AssertionAcceptedOnce ==
    ~ ( /\ \A p \in Tasks : authn[p].state = "accepted"
        /\ authn["task1"].jti = authn["task2"].jti
        /\ authn["task1"].exp = authn["task2"].exp
        /\ \A p \in Tasks : After(authn[p].exp, authn[p].at) )

(***************************************************************************)
(* Concurrent saves of one session                                         *)
(***************************************************************************)

\* Two requests arrive that save a session of the same type under the same
\* signature, each with its own request.
CallSaveConcurrently ==
    /\ rounds < MaxRounds
    /\ \A p \in Tasks : racers[p].state # "called"
    /\ \E op \in CreateOps, sig \in Signatures, a \in Requests, b \in Requests :
         racers' = [ p \in Tasks |->
                       [ state |-> "called",
                         op    |-> op,
                         sig   |-> sig,
                         req   |-> IF p = "task1" THEN a ELSE b,
                         r     |-> NilRequest,
                         err   |-> NoError ] ]
    /\ started' = sessions
    /\ rounds' = rounds + 1
    /\ UNCHANGED authn
    /\ UNCHANGED <<sessions, last, nops, saved, consumed, deleted, family>>
    /\ UNCHANGED <<jtiVars, subjectVars, consentVars, corsVars>>

NextConflict ==
    \/ CallSaveConcurrently
    \/ \E p \in Tasks : StorageStep(p)

SpecConflict == Init /\ [][NextConflict]_vars

\* The session type a Create...Session method saves under.
C34_Kind(op) ==
    CASE op = "CreateAuthorizeCodeSession" -> OAuth2SessionTypeAuthorizeCode
      [] op = "CreateAccessTokenSession"   -> OAuth2SessionTypeAccessToken
      [] op = "CreateRefreshTokenSession"  -> OAuth2SessionTypeRefreshToken
      [] op = "CreatePKCERequestSession"   -> OAuth2SessionTypePKCEChallenge
      [] op = "CreateOpenIDConnectSession" -> OAuth2SessionTypeOpenIDConnect

\* The key the two saves are for.
C34_Key == <<C34_Kind(racers["task1"].op), racers["task1"].sig>>

\* Both saves have returned, and no row was stored under their key when they
\* were called.
C34_BothSaved ==
    /\ \A p \in Tasks : racers[p].state = "returned"
    /\ racers["task1"].op \in CreateOps
    /\ C34_Key \notin DOMAIN started

\* C34: when two saves for the same session type and signature have run
\* concurrently on a table without that row, one returned nil and the other
\* the conflict error; the row stored is the one built from the request of
\* the save that returned nil, and the other rows are as they were.
C34_OneSaveWins ==
    C34_BothSaved =>
        \E w \in Tasks :
            /\ racers[w].err = NoError
            /\ \A l \in Tasks \ {w} : racers[l].err = ErrConflict
            /\ DOMAIN sessions = DOMAIN started \cup {C34_Key}
            /\ sessions[C34_Key] = NewOAuth2SessionFromRequest(racers[w].sig, racers[w].req)
            /\ \A k \in DOMAIN started : sessions[k] = started[k]

\* Two saves of an access-token session under sigA with different requests
\* have returned, the second task's first: its request is the one stored.
C34_Witness ==
    /\ C34_BothSaved
    /\ racers["task1"].op = "CreateAccessTokenSession"
    /\ racers["task1"].sig = "sigA"
    /\ racers["task1"].req.id # racers["task2"].req.id
    /\ racers["task1"].req.form # racers["task2"].req.form
    /\ racers["task2"].err = NoError
    /\ racers["task1"].err = ErrConflict
    /\ sessions[C34_Key].request_id = racers["task2"].req.id
    /\ sessions[C34_Key].form = racers["task2"].req.form

\* The two shapes in which the storage layer reports that no row matched.
C36_NoRowsErrors == {ErrNoRows, ErrWrappedNoRows}

\* C36: the bare no-rows error and an error wrapping it are classified
\* alike: loadSessionBySignature turns both into fosite.ErrNotFound, and a
\* check of a JTI that has no row (ClientAssertionJWTValid, IsJWTUsed) returns
\* nil, JTI unknown, whichever of the two the storage layer returned.
C36_NoRowsClassifiedAlike ==
    /\ \A err \in C36_NoRowsErrors : loadSessionBySignatureError(err) = ErrNotFound
    /\ ( /\ jlast.op \in CheckJTIOps
         /\ jlast.storage \in {"bare", "wrapped"}
         /\ Digest(jlast.jti) \notin DOMAIN blacklist )
       => jlast.err = NoError

(***************************************************************************)
(* CORS middleware                                                         *)
(***************************************************************************)

\* Strings that are split, trimmed, compared without case or joined are
\* sequences of characters.
HeaderCookie == <<"C", "o", "o", "k", "i", "e">>

HeaderAuthorization ==
    <<"A", "u", "t", "h", "o", "r", "i", "z", "a", "t", "i", "o", "n">>

HeaderProxyAuthorization ==
    <<"P", "r", "o", "x", "y", "-">> \o HeaderAuthorization

\* strings.Split(s, sep), sep one character.
RECURSIVE Split(_, _)
Split(s, sep) ==
    IF \A i \in 1 .. Len(s) : s[i] # sep
    THEN <<s>>
    ELSE LET i == CHOOSE i \in 1 .. Len(s) :
                     s[i] = sep /\ \A j \in 1 .. i - 1 : s[j] # sep
         IN  <<SubSeq(s, 1, i - 1)>> \o Split(SubSeq(s, i + 1, Len(s)), sep)

\* strings.Trim(s, cutset), cutset one character.
RECURSIVE Trim(_, _)
Trim(s, c) ==
    IF s = << >> THEN s
    ELSE IF s[1] = c THEN Trim(Tail(s), c)
    ELSE IF s[Len(s)] = c THEN Trim(SubSeq(s, 1, Len(s) - 1), c)
    ELSE s

\* strings.EqualFold(a, b) for ASCII strings.
EqualFold(a, b) ==
    LET upper == <<"A", "B", "C", "D", "E", "F", "G", "H", "I", "J", "K", "L", "M",
                   "N", "O", "P", "Q", "R", "S", "T", "U", "V", "W", "X", "Y", "Z">>
        lower == <<"a", "b", "c", "d", "e", "f", "g", "h", "i", "j", "k", "l", "m",
                   "n", "o", "p", "q", "r", "s", "t", "u", "v", "w", "x", "y", "z">>
        fold(ch) == IF \E i \in 1 .. Len(upper) : upper[i] = ch
                    THEN lower[CHOOSE i \in 1 .. Len(upper) : upper[i] = ch]
                    ELSE ch
    IN  /\ Len(a) = Len(b)
        /\ \A i \in 1 .. Len(a) : fold(a[i]) = fold(b[i])

\* strings.Join(elems, sep)
RECURSIVE Join(_, _)
Join(elems, sep) ==
    IF elems = << >> THEN << >>
    ELSE IF Len(elems) = 1 THEN elems[1]
    ELSE elems[1] \o sep \o Join(Tail(elems), sep)

\* utils.IsStringInSliceFold
IsStringInSliceFold(needle, haystack) ==
    \E i \in 1 .. Len(haystack) : EqualFold(haystack[i], needle)

\* url.Parse of an Origin header value: its scheme, or that it does not parse.
ParseURL(origin) ==
    CASE origin = ""                          -> [Scheme |-> "", err |-> NoError]
      [] origin = "https://app.example.com"   -> [Scheme |-> "https", err |-> NoError]
      [] origin = "https://other.example.com" -> [Scheme |-> "https", err |-> NoError]
      [] origin = "http://app.example.com"    -> [Scheme |-> "http", err |-> NoError]
      [] origin = ":app.example.com"          -> [Scheme |-> "", err |-> ErrClient]

\* ctx.Response.Header.SetBytesKV
SetBytesKV(header, key, value) ==
    [ k \in DOMAIN header \cup {key} |-> IF k = key THEN value ELSE header[k] ]

\* Variant: a sensitive header is recognised only in its canonical spelling.
handleAllowedHeaders_CaseSensitive(p, req, header) ==
    IF Len(p.headers) = 0
    THEN IF req.hasRequestHeaders
         THEN LET requestedHeaders == Split(req.AccessControlRequestHeaders, ",")
                  headerTrimmed(i) == Trim(requestedHeaders[i], " ")
                  allowed(i) ==
                      /\ headerTrimmed(i) # <<"*">>
                      /\ \/ p.credentials = "true"
                         \/ /\ HeaderCookie # headerTrimmed(i)
                            /\ HeaderAuthorization # headerTrimmed(i)
                            /\ HeaderProxyAuthorization # headerTrimmed(i)
                  allowHeaders ==
                      [ n \in 1 .. Cardinality({ i \in 1 .. Len(requestedHeaders) : allowed(i) }) |->
                          headerTrimmed(CHOOSE i \in 1 .. Len(requestedHeaders) :
                              /\ allowed(i)
                              /\ Cardinality({ j \in 1 .. i : allowed(j) }) = n) ]
              IN  IF Len(allowHeaders) # 0
                  THEN SetBytesKV(header, "Access-Control-Allow-Headers",
                                  Join(allowHeaders, <<",", " ">>))
                  ELSE header
         ELSE header
    ELSE LET withCookie ==
                 IF IsStringInSliceFold(HeaderCookie, p.headers)
                 THEN p.headers ELSE Append(p.headers, HeaderCookie)
             withAuthorization ==
                 IF IsStringInSliceFold(HeaderAuthorization, withCookie)
                 THEN withCookie ELSE Append(withCookie, HeaderAuthorization)
             withProxyAuthorization ==
                 IF IsStringInSliceFold(HeaderProxyAuthorization, withAuthorization)
                 THEN withAuthorization
                 ELSE Append(withAuthorization, HeaderProxyAuthorization)
             headers == IF p.credentials = "true" THEN withProxyAuthorization ELSE p.headers
         IN  SetBytesKV(header, "Access-Control-Allow-Headers", Join(headers, <<",", " ">>))

\* Without a configured list the requested headers are split at the commas
\* and trimmed, "*" is skipped, Cookie, Authorization and Proxy-Authorization
\* are kept only with credentials = true, and the header is set when the
\* list kept is not empty; a configured list is sent as it is, with the
\* three headers added when credentials = true.
handleAllowedHeaders(p, req, header) ==
    IF Len(p.headers) = 0
    THEN IF req.hasRequestHeaders
         THEN LET requestedHeaders == Split(req.AccessControlRequestHeaders, ",")
                  headerTrimmed(i) == Trim(requestedHeaders[i], " ")
                  allowed(i) ==
                      /\ headerTrimmed(i) # <<"*">>
                      /\ \/ p.credentials = "true"
                         \/ /\ ~EqualFold(HeaderCookie, headerTrimmed(i))
                            /\ ~EqualFold(HeaderAuthorization, headerTrimmed(i))
                            /\ ~EqualFold(HeaderProxyAuthorization, headerTrimmed(i))
                  allowHeaders ==
                      [ n \in 1 .. Cardinality({ i \in 1 .. Len(requestedHeaders) : allowed(i) }) |->
                          headerTrimmed(CHOOSE i \in 1 .. Len(requestedHeaders) :
                              /\ allowed(i)
                              /\ Cardinality({ j \in 1 .. i : allowed(j) }) = n) ]
              IN  IF Len(allowHeaders) # 0
                  THEN SetBytesKV(header, "Access-Control-Allow-Headers",
                                  Join(allowHeaders, <<",", " ">>))
                  ELSE header
         ELSE header
    ELSE LET withCookie ==
                 IF IsStringInSliceFold(HeaderCookie, p.headers)
                 THEN p.headers ELSE Append(p.headers, HeaderCookie)
             withAuthorization ==
                 IF IsStringInSliceFold(HeaderAuthorization, withCookie)
                 THEN withCookie ELSE Append(withCookie, HeaderAuthorization)
             withProxyAuthorization ==
                 IF IsStringInSliceFold(HeaderProxyAuthorization, withAuthorization)
                 THEN withAuthorization
                 ELSE Append(withAuthorization, HeaderProxyAuthorization)
             headers == IF p.credentials = "true" THEN withProxyAuthorization ELSE p.headers
         IN  SetBytesKV(header, "Access-Control-Allow-Headers", Join(headers, <<",", " ">>))

\* The configured methods, or else the method the request asks for.
handleAllowedMethods(p, req, header) ==
    IF Len(p.methods) = 0
    THEN IF req.hasRequestMethod
         THEN SetBytesKV(header, "Access-Control-Allow-Methods",
                         req.AccessControlRequestMethod)
         ELSE header
    ELSE SetBytesKV(header, "Access-Control-Allow-Methods", p.methods)

\* Variant: without configured origins every origin that parses is echoed.
handleCORS_AnyScheme(p, req, header) ==
    LET origin    == req.Origin
        originURL == ParseURL(origin)
        matches   == { i \in 1 .. Len(p.origins) : p.origins[i] \in {"*", origin} }
        lastMatch == CHOOSE i \in matches : \A j \in matches : j <= i
        allowedOrigin ==
            IF Len(p.origins) = 0 THEN origin
            ELSE IF matches = {} THEN ""
            ELSE IF p.origins[lastMatch] = "*" THEN "*" ELSE origin
        withOrigin  == SetBytesKV(header, "Access-Control-Allow-Origin", allowedOrigin)
        withCreds   == SetBytesKV(withOrigin, "Access-Control-Allow-Credentials",
                                  p.credentials)
        withMaxAge  == IF p.maxAge # ""
                       THEN SetBytesKV(withCreds, "Access-Control-Max-Age", p.maxAge)
                       ELSE withCreds
    IN  IF originURL.err # NoError
        THEN header
        ELSE IF Len(p.origins) # 0 /\ allowedOrigin = "" THEN header
        ELSE handleAllowedMethods(p, req, handleAllowedHeaders(p, req, withMaxAge))

\* Nothing is set for an Origin that does not parse, for one whose scheme is
\* not https when no origins are configured, and for one that matches none of
\* the configured origins; otherwise Allow-Origin, Allow-Credentials, Max-Age
\* (when set), Allow-Headers and Allow-Methods.
handleCORS(p, req, header) ==
    LET origin    == req.Origin
        originURL == ParseURL(origin)
        matches   == { i \in 1 .. Len(p.origins) : p.origins[i] \in {"*", origin} }
        lastMatch == CHOOSE i \in matches : \A j \in matches : j <= i
        allowedOrigin ==
            IF Len(p.origins) = 0 THEN origin
            ELSE IF matches = {} THEN ""
            ELSE IF p.origins[lastMatch] = "*" THEN "*" ELSE origin
        withOrigin  == SetBytesKV(header, "Access-Control-Allow-Origin", allowedOrigin)
        withCreds   == SetBytesKV(withOrigin, "Access-Control-Allow-Credentials",
                                  p.credentials)
        withMaxAge  == IF p.maxAge # ""
                       THEN SetBytesKV(withCreds, "Access-Control-Max-Age", p.maxAge)
                       ELSE withCreds
    IN  IF originURL.err # NoError \/ (originURL.Scheme # "https" /\ Len(p.origins) = 0)
        THEN header
        ELSE IF Len(p.origins) # 0 /\ allowedOrigin = "" THEN header
        ELSE handleAllowedMethods(p, req, handleAllowedHeaders(p, req, withMaxAge))

handleVary(p, header) ==
    IF p.vary # "" THEN SetBytesKV(header, "Vary", p.vary) ELSE header

handle(p, req, header) ==
    IF ~p.enabled THEN header
    ELSE IF ~p.varyOnly THEN handleCORS(p, req, handleVary(p, header))
    ELSE handleVary(p, header)

\* Most headers named in one Access-Control-Request-Headers value.
MaxItems == 2

\* The requests served: no Origin, two https origins, an http origin and one
\* that does not parse; no Access-Control-Request-Headers or every list of
\* up to MaxItems items, joined by commas, of a custom header, "*", and the
\* three sensitive headers in other cases and behind a space; with and
\* without Access-Control-Request-Method.
CORSRequests ==
    LET items == { <<"X", "-", "I", "d">>,
                   <<"*">>,
                   <<" ", "c", "o", "o", "k", "i", "e">>,
                   <<"A", "U", "T", "H", "O", "R", "I", "Z", "A", "T", "I", "O", "N">>,
                   <<" ">> \o HeaderProxyAuthorization }
        lists == UNION { [1 .. n -> items] : n \in 1 .. MaxItems }
        origins == { "", "https://app.example.com", "https://other.example.com",
                     "http://app.example.com", ":app.example.com" }
        noHeaders == [ Origin : origins, hasRequestHeaders : {FALSE},
                       AccessControlRequestHeaders : {<< >>},
                       hasRequestMethod : BOOLEAN,
                       AccessControlRequestMethod : {<<"P", "O", "S", "T">>} ]
        headers   == [ Origin : origins, hasRequestHeaders : {TRUE},
                       AccessControlRequestHeaders : { Join(l, <<",">>) : l \in lists },
                       hasRequestMethod : BOOLEAN,
                       AccessControlRequestMethod : {<<"P", "O", "S", "T">>} ]
    IN  { [ r EXCEPT !.AccessControlRequestMethod =
                        IF r.hasRequestMethod THEN @ ELSE << >> ] :
            r \in noHeaders \cup headers }

\* The With methods configure the policy before it serves.
WithEnabled ==
    /\ ~http.served
    /\ \E enabled \in BOOLEAN :
         corsPolicy' = [corsPolicy EXCEPT !.enabled = enabled]
    /\ UNCHANGED <<http, sessionVars, jtiVars, subjectVars, consentVars, raceVars>>

WithAllowedMethods ==
    /\ ~http.served
    /\ \E methods \in { << >>, << <<"G", "E", "T">>, <<"P", "O", "S", "T">> >> } :
         corsPolicy' = [corsPolicy EXCEPT !.methods =
                          IF Len(methods) = 0 THEN << >>
                          ELSE Join(methods, <<",", " ">>)]
    /\ UNCHANGED <<http, sessionVars, jtiVars, subjectVars, consentVars, raceVars>>

\* A list holding "*" becomes the list of "*" alone.
WithAllowedOrigins ==
    /\ ~http.served
    /\ \E origins \in { << >>, <<"*">>, <<"https://app.example.com">>,
                        <<"http://app.example.com", "https://other.example.com">>,
                        <<"https://app.example.com", "*">> } :
         corsPolicy' = [corsPolicy EXCEPT !.origins =
                          IF Len(origins) = 0 THEN << >>
                          ELSE IF \E i \in 1 .. Len(origins) : origins[i] = "*"
                          THEN <<"*">>
                          ELSE origins]
    /\ UNCHANGED <<http, sessionVars, jtiVars, subjectVars, consentVars, raceVars>>

WithAllowedHeaders ==
    /\ ~http.served
    /\ \E headers \in { << >>, << <<"X", "-", "I", "d">>,
                                  <<"c", "o", "o", "k", "i", "e">> >> } :
         corsPolicy' = [corsPolicy EXCEPT !.headers = headers]
    /\ UNCHANGED <<http, sessionVars, jtiVars, subjectVars, consentVars, raceVars>>

\* strconv.FormatBool
WithAllowCredentials ==
    /\ ~http.served
    /\ \E allow \in BOOLEAN :
         corsPolicy' = [corsPolicy EXCEPT !.credentials =
                          IF allow THEN "true" ELSE "false"]
    /\ UNCHANGED <<http, sessionVars, jtiVars, subjectVars, consentVars, raceVars>>

WithVaryOnly ==
    /\ ~http.served
    /\ \E varyOnly \in BOOLEAN :
         corsPolicy' = [corsPolicy EXCEPT !.varyOnly = varyOnly]
    /\ UNCHANGED <<http, sessionVars, jtiVars, subjectVars, consentVars, raceVars>>

\* The middleware serves a request: the policy is applied to the response
\* before the next handler runs.  The handlers keep nothing from one request
\* to the next, a behaviour serves one.
Middleware ==
    \E req \in CORSRequests :
        /\ ~http.served
        /\ http' = [ served |-> TRUE, handler |-> "Middleware", req |-> req,
                     resp |-> handle(corsPolicy, req, << >>) ]
        /\ UNCHANGED <<corsPolicy, sessionVars, jtiVars, subjectVars, consentVars, raceVars>>

NextCORS ==
    \/ WithEnabled
    \/ WithAllowedMethods
    \/ WithAllowedOrigins
    \/ WithAllowedHeaders
    \/ WithAllowCredentials
    \/ WithVaryOnly
    \/ Middleware

SpecCORS == Init /\ [][NextCORS]_vars

\* The policy was applied to the response of the request served.
C37_Applied == http.served /\ "Access-Control-Allow-Origin" \in DOMAIN http.resp

\* The headers named in the Access-Control-Request-Headers of the request.
C37_Named ==
    LET raw == Split(http.req.AccessControlRequestHeaders, ",")
    IN  [ i \in 1 .. Len(raw) |-> Trim(raw[i], " ") ]

\* A header named is sent back: it is not "*" and, unless credentials are
\* allowed, not one of the three sensitive headers in any case.
C37_Kept(h) ==
    /\ h # <<"*">>
    /\ corsPolicy.credentials # "true" =>
          \A sensitive \in {HeaderCookie, HeaderAuthorization, HeaderProxyAuthorization} :
              ~EqualFold(sensitive, h)

\* C37: when the policy has no configured header list and is applied to a
\* response, Access-Control-Allow-Headers is the list of the headers named in
\* Access-Control-Request-Headers without "*" and, unless credentials are
\* allowed, without Cookie, Authorization and Proxy-Authorization in any
\* case; it is not set when the request names none or none remains.
C37_DefaultAllowedHeaders ==
    (C37_Applied /\ Len(corsPolicy.headers) = 0) =>
        LET remaining == IF http.req.hasRequestHeaders
                         THEN SelectSeq(C37_Named, C37_Kept) ELSE << >>
        IN  IF remaining = << >>
            THEN "Access-Control-Allow-Headers" \notin DOMAIN http.resp
            ELSE /\ "Access-Control-Allow-Headers" \in DOMAIN http.resp
                 /\ http.resp["Access-Control-Allow-Headers"] = Join(remaining, <<",", " ">>)

\* Without credentials, "AUTHORIZATION,X-Id" was requested and X-Id alone is
\* allowed.
C37_Witness ==
    /\ C37_Applied
    /\ Len(corsPolicy.headers) = 0
    /\ corsPolicy.credentials = "false"
    /\ http.req.hasRequestHeaders
    /\ Len(C37_Named) = 2
    /\ EqualFold(C37_Named[1], HeaderAuthorization)
    /\ C37_Named[1] # HeaderAuthorization
    /\ "Access-Control-Allow-Headers" \in DOMAIN http.resp
    /\ http.resp["Access-Control-Allow-Headers"] = <<"X", "-", "I", "d">>

\* The Access-Control-* headers set on the response of the request served.
C38_AccessControl ==
    DOMAIN http.resp \cap
        { "Access-Control-Allow-Origin", "Access-Control-Allow-Credentials",
          "Access-Control-Max-Age", "Access-Control-Allow-Headers",
          "Access-Control-Allow-Methods" }

====
